---------------------------- MODULE Spec2Model ----------------------------
(***************************************************************************)
(* ChemReact3D: the force-directed 3D layout engine autoLayoutMolecule of  *)
(* src/services/layoutService.ts.  The file holds two tunings of the same   *)
(* routine (lines 11-210 and lines 222-420); the variable `variant' says    *)
(* which one a call runs.                                                   *)
(*                                                                         *)
(* A JavaScript number is held as a binary floating-point number <<m, e>>   *)
(* of value m * 2^e, the mantissa m of 15 bits (2^14 <= |m| < 2^15, or 0)   *)
(* and the exponent e bounded by MaxExp: a double of smaller width.         *)
(* Results too large overflow to PosInf / NegInf, results too small flush   *)
(* to zero, and undefined results are NaN.                                  *)
(***************************************************************************)
EXTENDS Integers, Sequences, FiniteSets, TLC

\* ------------------------------------------------------------------------
\* Bounds of the model
\* ------------------------------------------------------------------------
\* finite numbers have magnitudes in [2^(-MaxExp), 2^(MaxExp + 1))
MaxExp == 40
MaxAtoms == 3
MaxCalls == 2
\* the largest flat molecule the scramble alone is checked on
MaxScrambled == 5

\* ------------------------------------------------------------------------
\* JavaScript numbers
\* ------------------------------------------------------------------------
MaxE == MaxExp - 14
MinE == 0 - MaxExp - 14

Zero == <<0, 0>>
PosInf == <<2 ^ 14, MaxE + 1>>
NegInf == <<0 - 2 ^ 14, MaxE + 1>>
NaN == <<0, MaxE + 2>>

IsNaN(a) ==
    a = NaN

IsFinite(a) ==
    a[2] <= MaxE

\* the number of bits of the integer a > 0
BitLen(a) ==
    IF a < 2 ^ 16
    THEN IF a < 2 ^ 8
         THEN IF a < 2 ^ 4
              THEN IF a < 2 ^ 2
                   THEN IF a < 2 ^ 1
                        THEN 1
                        ELSE 2
                   ELSE IF a < 2 ^ 3
                        THEN 3
                        ELSE 4
              ELSE IF a < 2 ^ 6
                   THEN IF a < 2 ^ 5
                        THEN 5
                        ELSE 6
                   ELSE IF a < 2 ^ 7
                        THEN 7
                        ELSE 8
         ELSE IF a < 2 ^ 12
              THEN IF a < 2 ^ 10
                   THEN IF a < 2 ^ 9
                        THEN 9
                        ELSE 10
                   ELSE IF a < 2 ^ 11
                        THEN 11
                        ELSE 12
              ELSE IF a < 2 ^ 14
                   THEN IF a < 2 ^ 13
                        THEN 13
                        ELSE 14
                   ELSE IF a < 2 ^ 15
                        THEN 15
                        ELSE 16
    ELSE IF a < 2 ^ 24
         THEN IF a < 2 ^ 20
              THEN IF a < 2 ^ 18
                   THEN IF a < 2 ^ 17
                        THEN 17
                        ELSE 18
                   ELSE IF a < 2 ^ 19
                        THEN 19
                        ELSE 20
              ELSE IF a < 2 ^ 22
                   THEN IF a < 2 ^ 21
                        THEN 21
                        ELSE 22
                   ELSE IF a < 2 ^ 23
                        THEN 23
                        ELSE 24
         ELSE IF a < 2 ^ 28
              THEN IF a < 2 ^ 26
                   THEN IF a < 2 ^ 25
                        THEN 25
                        ELSE 26
                   ELSE IF a < 2 ^ 27
                        THEN 27
                        ELSE 28
              ELSE IF a < 2 ^ 30
                   THEN IF a < 2 ^ 29
                        THEN 29
                        ELSE 30
                   ELSE 31

\* the integer a > 0 with its sh lowest bits rounded away (sh <= 0: with
\* -sh zero bits appended)
Rounded(a, sh) ==
    IF sh <= 0 THEN a * 2 ^ (0 - sh) ELSE (a + 2 ^ (sh - 1)) \div 2 ^ sh

\* the number of sign neg, mantissa m and exponent e: overflow gives an
\* infinity, underflow gives zero
Ranged(neg, m, e) ==
    IF e > MaxE THEN (IF neg THEN NegInf ELSE PosInf)
    ELSE IF e < MinE THEN Zero
    ELSE <<IF neg THEN 0 - m ELSE m, e>>

\* the same for r in 2^14 .. 2^15, where 2^15 is carried into the exponent
Packed(neg, r, e) ==
    Ranged(neg, IF r = 2 ^ 15 THEN 2 ^ 14 ELSE r, IF r = 2 ^ 15 THEN e + 1 ELSE e)

\* the number nearest to a * 2^e, negated if neg, for an integer a > 0 of
\* sh + 15 bits
Shifted(neg, a, sh, e) ==
    Packed(neg, Rounded(a, sh), e + sh)

\* the number nearest to m * 2^e, for an integer m
Norm(m, e) ==
    IF m = 0 THEN Zero
    ELSE Shifted(m < 0, IF m < 0 THEN 0 - m ELSE m,
                 BitLen(IF m < 0 THEN 0 - m ELSE m) - 15, e)

\* the integer literal n
F(n) ==
    Norm(n, 0)

Neg(a) ==
    IF a = NaN THEN NaN ELSE <<0 - a[1], a[2]>>

\* hi + lo, for finite numbers other than zero, the exponent of hi being
\* the larger
AddAligned(hi, lo) ==
    IF hi[2] - lo[2] > 15 THEN hi
    ELSE Norm(hi[1] * 2 ^ (hi[2] - lo[2]) + lo[1], lo[2])

\* a + b
Add(a, b) ==
    IF a = NaN \/ b = NaN THEN NaN
    ELSE IF ~IsFinite(a) THEN (IF ~IsFinite(b) /\ b # a THEN NaN ELSE a)
    ELSE IF ~IsFinite(b) THEN b
    ELSE IF a[1] = 0 THEN b
    ELSE IF b[1] = 0 THEN a
    ELSE AddAligned(IF a[2] >= b[2] THEN a ELSE b, IF a[2] >= b[2] THEN b ELSE a)

\* a - b
Sub(a, b) ==
    Add(a, Neg(b))

\* a * b
Mul(a, b) ==
    IF a = NaN \/ b = NaN THEN NaN
    ELSE IF IsFinite(a) /\ IsFinite(b) THEN Norm(a[1] * b[1], a[2] + b[2])
    ELSE IF a[1] = 0 \/ b[1] = 0 THEN NaN
    ELSE IF (a[1] > 0) = (b[1] > 0) THEN PosInf ELSE NegInf

\* a / b
Div(a, b) ==
    IF a = NaN \/ b = NaN THEN NaN
    ELSE IF IsFinite(a) /\ IsFinite(b)
    THEN IF b[1] = 0
         THEN (IF a[1] = 0 THEN NaN ELSE IF a[1] > 0 THEN PosInf ELSE NegInf)
         ELSE LET q == (IF a[1] < 0 THEN 0 - a[1] ELSE a[1]) * 2 ^ 15
                  d == IF b[1] < 0 THEN 0 - b[1] ELSE b[1]
              IN  Norm(IF (a[1] < 0) = (b[1] < 0) THEN q \div d ELSE 0 - (q \div d),
                       a[2] - b[2] - 15)
    ELSE IF IsFinite(a) THEN Zero
    ELSE IF IsFinite(b) THEN (IF (a[1] > 0) = (b[1] >= 0) THEN PosInf ELSE NegInf)
    ELSE NaN

\* a < b, false when either is NaN
Lt(a, b) ==
    /\ a # NaN
    /\ b # NaN
    /\ IF a[1] < 0
       THEN b[1] >= 0 \/ a[2] > b[2] \/ (a[2] = b[2] /\ a[1] < b[1])
       ELSE IF a[1] = 0 THEN b[1] > 0
       ELSE b[1] > 0 /\ (a[2] < b[2] \/ (a[2] = b[2] /\ a[1] < b[1]))

\* a > b, false when either is NaN
Gt(a, b) ==
    Lt(b, a)

\* |a|
Abs(a) ==
    IF a = NaN THEN NaN ELSE <<IF a[1] < 0 THEN 0 - a[1] ELSE a[1], a[2]>>

\* a || d
OrElse(a, d) ==
    IF a = Zero \/ a = NaN THEN d ELSE a

\* the decimal literal num/den
Dec(num, den) ==
    Div(F(num), F(den))

RECURSIVE Newton(_, _)
Newton(n, x) ==
    LET y == (x + n \div x) \div 2
    IN  IF y >= x THEN x ELSE Newton(n, y)

\* floor of the square root of the integer n, 0 < n < 2^30
ISqrt(n) ==
    Newton(n, 2 ^ 15)

\* the square root of m * 2^e, for m > 0 and e - s even
SqrtOf(m, e, s) ==
    Norm(ISqrt(m * 2 ^ s), (e - s) \div 2)

\* Math.sqrt(a)
Sqrt(a) ==
    IF a = NaN \/ a[1] < 0 THEN NaN
    ELSE IF a = PosInf \/ a = Zero THEN a
    ELSE SqrtOf(a[1], a[2], IF a[2] % 2 = 0 THEN 14 ELSE 15)

\* the integer part of the finite number a >= 0
Trunc(a) ==
    IF a[2] >= 0 THEN a[1] * 2 ^ a[2]
    ELSE IF a[2] < 0 - 15 THEN 0
    ELSE a[1] \div 2 ^ (0 - a[2])

\* the alternating Taylor series term - term*x2/(k(k+1)) + ...
RECURSIVE Series(_, _, _, _)
Series(term, x2, k, acc) ==
    IF term = Zero \/ term[2] < 0 - 34 THEN acc
    ELSE Series(Neg(Div(Mul(term, x2), F(k * (k + 1)))), x2, k + 2, Add(acc, term))

Pi == Dec(314159265, 100000000)

TwoPi == Mul(F(2), Pi)

\* the angle r of [0, 2 Pi) brought into [-Pi, Pi]
Wrapped(r) ==
    IF Gt(r, Pi) THEN Sub(r, TwoPi) ELSE r

\* the angle t >= 0 brought into [-Pi, Pi]
Reduce(t) ==
    Wrapped(Sub(t, Mul(F(Trunc(Div(t, TwoPi))), TwoPi)))

\* the cosine of x in [-Pi, Pi]
CosOf(x) ==
    Series(F(1), Mul(x, x), 1, Zero)

\* Math.cos(t)
Cos(t) ==
    CosOf(Reduce(t))

\* the sine of x in [-Pi, Pi]
SinOf(x) ==
    Series(x, Mul(x, x), 2, Zero)

\* Math.sin(t)
Sin(t) ==
    SinOf(Reduce(t))

\* ------------------------------------------------------------------------
\* Physics constants of the two tunings (1: lines 11-210, 2: lines 222-420)
\* ------------------------------------------------------------------------
Variants == {1, 2}

ITERATIONS(v) ==
    IF v = 1 THEN 600 ELSE 800

K_REPULSION(v) ==
    IF v = 1 THEN F(80) ELSE F(150)

K_SPRING(v) ==
    IF v = 1 THEN Dec(5, 10) ELSE Dec(12, 10)

DAMPING ==
    Dec(85, 100)

LENGTH_SINGLE(v) ==
    IF v = 1 THEN Dec(35, 10) ELSE F(3)

LENGTH_DOUBLE(v) ==
    IF v = 1 THEN F(3) ELSE Dec(28, 10)

LENGTH_TRIPLE ==
    Dec(25, 10)

\* the z-range below which more than 2 atoms count as flat
FlatThreshold ==
    Dec(5, 10)

\* a faulty angle: half a turn, which keeps every point in one plane
GoldenAngleHalfTurn ==
    Pi

\* golden angle in radians
GoldenAngle ==
    Dec(239996, 100000)

\* initial explosion radius
radius(v) ==
    IF v = 1 THEN F(5) ELSE F(4)

\* width of the micro-jitter
JitterScale(v) ==
    IF v = 1 THEN Dec(2, 10) ELSE Dec(1, 100)

\* floor of the squared distance in the repulsion
DistSqFloor(v) ==
    IF v = 1 THEN Dec(1, 100) ELSE Dec(1, 10)

\* floor of a zero bond distance
DistFloor ==
    Dec(1, 10)

GRAVITY(v) ==
    IF v = 1 THEN Dec(1, 100) ELSE Dec(5, 1000)

\* The temperature is held as an integer number of millionths, so that the
\* geometric schedule crosses its floor at the iteration the doubles do.
TempUnit ==
    10 ^ 6

InitialTemperature(v) ==
    IF v = 1 THEN 20 * TempUnit ELSE 10 * TempUnit

\* a faulty cooling: the temperature loses a tenth in every pass
CoolFast(v, t) ==
    (t * 90) \div 100

\* temperature *= coolingFactor, with coolingFactor 0.95 or 0.97
Cool(v, t) ==
    IF v = 1 THEN (t * 95) \div 100 ELSE (t * 97) \div 100

TemperatureFloor(v) ==
    IF v = 1 THEN TempUnit \div 10 ELSE (5 * TempUnit) \div 100

\* the temperature t as a number
Temp(t) ==
    Div(F(t), F(TempUnit))

\* floor of the maximum squared velocity (first tuning only)
VelSqFloor ==
    Dec(1, 100)


\* ------------------------------------------------------------------------
\* State
\* ------------------------------------------------------------------------
VARIABLES
    variant,      \* which tuning of autoLayoutMolecule the call runs
    molecule,     \* the argument of the call: [name, hasAtoms, atoms, bonds]
    pc,           \* "idle", "loop", "final", "done" or "threw"
    nodes,        \* the simulation nodes of the call
    edges,        \* the simulated edges of the call
    temperature,  \* the annealing temperature
    k,            \* the loop counter
    maxVelSq,     \* the largest squared velocity of the last iteration
    result,       \* the returned molecule, once pc = "done"
    calls,        \* the number of calls started
    first,        \* what the caller held before its first call
    service,      \* the coordinate service of getAccurate3DStructure
    outcome,      \* where the promise of getAccurate3DStructure stands
    start,        \* the nodes as the call built them, before the first pass
    currentMolecule,  \* Builder: the molecule on the canvas
    history,          \* Builder: the molecules that undo brings back
    mode,             \* Builder: "build" or "erase"
    selectedAtomId,   \* MoleculeRenderer: the selected atom, or NoId
    isLayoutLoading,  \* Builder: an auto layout is under way
    requested,        \* the arguments of the pending getAccurate3DStructure calls
    savedMolecules,   \* App: the inventory
    now               \* Date.now(), which every operation of the user advances

\* the state of the Builder, its renderer and the inventory
builder ==
    <<currentMolecule, history, mode, selectedAtomId, isLayoutLoading, requested,
      savedMolecules, now>>

vars ==
    <<variant, molecule, pc, nodes, edges, temperature, k, maxVelSq, result, calls,
      first, service, outcome, start, builder>>

\* an id that is null
NoId == <<>>

\* useState(...) of Builder, MoleculeRenderer and App
BuilderInit ==
    /\ currentMolecule = [id |-> <<"temp-builder">>, name |-> "New Molecule",
                          atoms |-> <<>>, bonds |-> <<>>]
    /\ history = <<>>
    /\ mode = "build"
    /\ selectedAtomId = NoId
    /\ isLayoutLoading = FALSE
    /\ requested = <<>>
    /\ savedMolecules = <<>>
    /\ now = 0

\* ------------------------------------------------------------------------
\* Initial state analysis and node construction
\* ------------------------------------------------------------------------
RECURSIVE MinOf(_)
\* Math.min(...s)
MinOf(s) ==
    IF Len(s) = 1 THEN s[1]
    ELSE LET m == MinOf(Tail(s))
         IN  IF s[1] = NaN \/ m = NaN THEN NaN ELSE IF Lt(s[1], m) THEN s[1] ELSE m

RECURSIVE MaxOf(_)
\* Math.max(...s)
MaxOf(s) ==
    IF Len(s) = 1 THEN s[1]
    ELSE LET m == MaxOf(Tail(s))
         IN  IF s[1] = NaN \/ m = NaN THEN NaN ELSE IF Gt(s[1], m) THEN s[1] ELSE m

zValues(m) ==
    [i \in 1..Len(m.atoms) |-> OrElse(m.atoms[i].z, Zero)]

zRange(m) ==
    Sub(MaxOf(zValues(m)), MinOf(zValues(m)))

\* a faulty classification: two atoms count as flat as well
needsScrambleFromTwo(m) ==
    Len(m.atoms) >= 2 /\ Lt(zRange(m), FlatThreshold)

needsScramble(m) ==
    Len(m.atoms) > 2 /\ Lt(zRange(m), FlatThreshold)

\* the point of the sphere at the angle theta, the height y_sphere and the
\* distance radius_at_y from the axis
SpherePoint(v, theta, y_sphere, radius_at_y) ==
    [x |-> Mul(Mul(Cos(theta), radius_at_y), radius(v)),
     y |-> Mul(y_sphere, radius(v)),
     z |-> Mul(Mul(Sin(theta), radius_at_y), radius(v))]

\* the same, radius_at_y = Math.sqrt(1 - y_sphere * y_sphere)
OnSphere(v, theta, y_sphere) ==
    SpherePoint(v, theta, y_sphere, Sqrt(Sub(F(1), Mul(y_sphere, y_sphere))))

\* the point of the golden-angle sphere for the atom at `index' of n
Scramble(v, index, n) ==
    OnSphere(v, Mul(F(index), GoldenAngle),
             Sub(F(1), Mul(Div(F(index), F(n - 1)), F(2))))

\* (Math.random() - 0.5) * scale, for the random number r in [0, 1)
Jitter(v, r) ==
    Mul(Sub(r, Dec(5, 10)), JitterScale(v))

\* a faulty placement: the scrambled position is jittered as well
PlacedShaken(v, a, index, n, scramble, rnd) ==
    [x |-> Add(IF scramble THEN Scramble(v, index, n).x ELSE a.x, Jitter(v, rnd[1])),
     y |-> Add(IF scramble THEN Scramble(v, index, n).y ELSE a.y, Jitter(v, rnd[2])),
     z |-> Add(IF scramble THEN Scramble(v, index, n).z ELSE OrElse(a.z, Zero),
               Jitter(v, rnd[3]))]

\* the start position of atom a at `index' (0-based): scrambled, or the
\* position of the atom with the jitter of the random numbers rnd
Placed(v, a, index, n, scramble, rnd) ==
    IF scramble
    THEN Scramble(v, index, n)
    ELSE [x |-> Add(a.x, Jitter(v, rnd[1])),
          y |-> Add(a.y, Jitter(v, rnd[2])),
          z |-> Add(OrElse(a.z, Zero), Jitter(v, rnd[3]))]

\* { ...a, x, y, z, vx: 0, vy: 0, vz: 0, fx: 0, fy: 0, fz: 0 }
NodeAt(a, p) ==
    [id |-> a.id, element |-> a.element,
     x |-> p.x, y |-> p.y, z |-> p.z,
     vx |-> Zero, vy |-> Zero, vz |-> Zero,
     fx |-> Zero, fy |-> Zero, fz |-> Zero]

\* a faulty NodeAt: the node takes the velocity old
NodeMovingAt(a, p, old) ==
    [NodeAt(a, p) EXCEPT !.vx = old.vx, !.vy = old.vy, !.vz = old.vz]

\* a faulty NewNode: the node of an atom laid out before keeps the velocity
\* the previous call left in the node list
NewNodeCached(v, a, index, n, scramble, rnd) ==
    IF index + 1 <= Len(nodes) /\ nodes[index + 1].id = a.id
    THEN NodeMovingAt(a, Placed(v, a, index, n, scramble, rnd), nodes[index + 1])
    ELSE NodeAt(a, Placed(v, a, index, n, scramble, rnd))

\* the simulation node of atom a at `index' (0-based); rnd gives the three
\* random numbers drawn for it
NewNode(v, a, index, n, scramble, rnd) ==
    NodeAt(a, Placed(v, a, index, n, scramble, rnd))

\* molecule.atoms.map((a, index) => ...); stream[3*index + 1 .. 3*index + 3]
\* are the random numbers of atom index
InitNodes(v, m, stream) ==
    LET n == Len(m.atoms)
        scramble == needsScramble(m)
    IN  [i \in 1..n |->
            NewNode(v, m.atoms[i], i - 1, n, scramble,
                    <<stream[3 * i - 2], stream[3 * i - 1], stream[3 * i]>>)]

RECURSIVE FindFrom(_, _, _)
FindFrom(ns, id, i) ==
    IF i > Len(ns) THEN 0 - 1
    ELSE IF ns[i].id = id THEN i - 1
    ELSE FindFrom(ns, id, i + 1)

\* a faulty choice of the rest length: every order but 1 and 2 is taken for
\* a triple bond
targetLenFromTriple(v, order) ==
    IF order = 1 THEN LENGTH_SINGLE(v)
    ELSE IF order = 2 THEN LENGTH_DOUBLE(v)
    ELSE LENGTH_TRIPLE

\* nodes.findIndex(n => n.id === id): 0-based, -1 when absent
findIndex(ns, id) ==
    FindFrom(ns, id, 1)

targetLen(v, order) ==
    IF order = 3 THEN LENGTH_TRIPLE
    ELSE IF order = 2 THEN LENGTH_DOUBLE(v)
    ELSE LENGTH_SINGLE(v)

\* the edge of bond b, before the filter
EdgeOf(v, ns, b) ==
    [source |-> findIndex(ns, b.sourceAtomId),
     target |-> findIndex(ns, b.targetAtomId),
     len |-> targetLen(v, b.order)]

\* a faulty filter: only the source of the edge is looked at
EdgeKeptBySource(e) ==
    e.source # 0 - 1

\* the filter of the edge list
EdgeKept(e) ==
    e.source # 0 - 1 /\ e.target # 0 - 1

\* molecule.bonds.map(...).filter(...)
MapEdges(v, ns, bonds) ==
    SelectSeq([i \in 1..Len(bonds) |-> EdgeOf(v, ns, bonds[i])], EdgeKept)


\* ------------------------------------------------------------------------
\* One iteration of the simulation loop
\* ------------------------------------------------------------------------
\* Reset forces
ResetForces(ns) ==
    [i \in 1..Len(ns) |-> [ns[i] EXCEPT !.fx = Zero, !.fy = Zero, !.fz = Zero]]

\* a faulty pair: the force is added to n1 and n2 gets nothing
ApplyPairOneSided(ns, i, j, f) ==
    [ns EXCEPT ![i] = [@ EXCEPT !.fx = Add(@, f.fx), !.fy = Add(@, f.fy),
                                !.fz = Add(@, f.fz)]]

\* n1 += f; n2 -= f
ApplyPair(ns, i, j, f) ==
    LET a == [ns[i] EXCEPT !.fx = Add(@, f.fx), !.fy = Add(@, f.fy), !.fz = Add(@, f.fz)]
        s == [ns EXCEPT ![i] = a]
        b == [s[j] EXCEPT !.fx = Sub(@, f.fx), !.fy = Sub(@, f.fy), !.fz = Sub(@, f.fz)]
    IN  [s EXCEPT ![j] = b]

\* dx*dx + dy*dy + dz*dz
SumSq(dx, dy, dz) ==
    Add(Add(Mul(dx, dx), Mul(dy, dy)), Mul(dz, dz))

\* a faulty direction: a force without a direction is turned along x
AlongOrAside(dx, dy, dz, dist, force) ==
    IF dx = Zero /\ dy = Zero /\ dz = Zero
    THEN [fx |-> force, fy |-> Zero, fz |-> Zero]
    ELSE [fx |-> Mul(Div(dx, dist), force),
          fy |-> Mul(Div(dy, dist), force),
          fz |-> Mul(Div(dz, dist), force)]

\* fx = (dx / dist) * force, and fy, fz alike
Along(dx, dy, dz, dist, force) ==
    [fx |-> Mul(Div(dx, dist), force),
     fy |-> Mul(Div(dy, dist), force),
     fz |-> Mul(Div(dz, dist), force)]

\* if (distSq < floor) distSq = floor
Floored(v, distSq) ==
    IF Lt(distSq, DistSqFloor(v)) THEN DistSqFloor(v) ELSE distSq

\* the Coulomb repulsion at the floored squared distance distSq
RepulsionAt(v, dx, dy, dz, distSq) ==
    Along(dx, dy, dz, Sqrt(distSq), Div(K_REPULSION(v), distSq))

\* the Coulomb repulsion along (dx, dy, dz)
RepulsionAlong(v, dx, dy, dz) ==
    RepulsionAt(v, dx, dy, dz, Floored(v, SumSq(dx, dy, dz)))

\* the Coulomb repulsion between n1 and n2, as the force on n1
RepulsionOf(v, n1, n2) ==
    RepulsionAlong(v, Sub(n1.x, n2.x), Sub(n1.y, n2.y), Sub(n1.z, n2.z))

RECURSIVE RepelFrom(_, _, _, _)
\* for (i ...) for (j = i + 1 ...), from the pair (i, j) on (1-based)
RepelFrom(v, ns, i, j) ==
    IF i > Len(ns) THEN ns
    ELSE IF j > Len(ns) THEN RepelFrom(v, ns, i + 1, i + 2)
    ELSE RepelFrom(v, ApplyPair(ns, i, j, RepulsionOf(v, ns[i], ns[j])), i, j + 1)

\* 1. Repulsion
Repulsion(v, ns) ==
    RepelFrom(v, ns, 1, 2)

\* a faulty spring: the displacement is taken with the opposite sign
SpringAtReversed(v, dx, dy, dz, dist, len) ==
    Along(dx, dy, dz, dist, Mul(K_SPRING(v), Sub(len, dist)))

\* the linear spring of rest length len at the distance dist:
\* force = K_SPRING * (dist - len)
SpringAt(v, dx, dy, dz, dist, len) ==
    Along(dx, dy, dz, dist, Mul(K_SPRING(v), Sub(dist, len)))

\* the linear spring along (dx, dy, dz): dist = Math.sqrt(...) || 0.1
SpringAlong(v, dx, dy, dz, len) ==
    SpringAt(v, dx, dy, dz, OrElse(Sqrt(SumSq(dx, dy, dz)), DistFloor), len)

\* the linear spring of rest length len between n1 and n2, as the force on n1
SpringOf(v, n1, n2, len) ==
    SpringAlong(v, Sub(n2.x, n1.x), Sub(n2.y, n1.y), Sub(n2.z, n1.z), len)

RECURSIVE AttractFrom(_, _, _, _)
\* for (const edge of edges), from edge e on
AttractFrom(v, ns, es, e) ==
    IF e > Len(es) THEN ns
    ELSE LET i == es[e].source + 1
             j == es[e].target + 1
         IN  AttractFrom(v, ApplyPair(ns, i, j, SpringOf(v, ns[i], ns[j], es[e].len)),
                         es, e + 1)

\* 2. Attraction
Attraction(v, ns, es) ==
    AttractFrom(v, ns, es, 1)

\* a faulty gravity: no force pulls the nodes to the centre
GravityNone(v, ns) ==
    ns

\* 3. Gravity
Gravity(v, ns) ==
    [i \in 1..Len(ns) |->
        [ns[i] EXCEPT !.fx = Sub(@, Mul(ns[i].x, GRAVITY(v))),
                      !.fy = Sub(@, Mul(ns[i].y, GRAVITY(v))),
                      !.fz = Sub(@, Mul(ns[i].z, GRAVITY(v)))]]

\* the forces of one iteration
Forces(v, ns, es) ==
    Gravity(v, Attraction(v, Repulsion(v, ResetForces(ns)), es))

\* v = (v + f) * DAMPING, before the cap
Damped(n) ==
    [vx |-> Mul(Add(n.vx, n.fx), DAMPING),
     vy |-> Mul(Add(n.vy, n.fy), DAMPING),
     vz |-> Mul(Add(n.vz, n.fz), DAMPING)]

\* vx*vx + vy*vy + vz*vz of the velocity d
VSqOf(d) ==
    SumSq(d.vx, d.vy, d.vz)

\* vSq, the squared velocity before the cap
VSq(n) ==
    VSqOf(Damped(n))

\* a faulty rescaling: the velocity is left twice as long as asked
RescaledTwice(d, scale) ==
    [vx |-> Mul(d.vx, Mul(F(2), scale)), vy |-> Mul(d.vy, Mul(F(2), scale)),
     vz |-> Mul(d.vz, Mul(F(2), scale))]

\* n.vx *= scale, and vy, vz alike
Rescaled(d, scale) ==
    [vx |-> Mul(d.vx, scale), vy |-> Mul(d.vy, scale), vz |-> Mul(d.vz, scale)]

\* a faulty cap: the velocity is never scaled down
CapNever(d, vSq, t) ==
    d

\* Cap velocity: the velocity d of squared length vSq at temperature t
Cap(d, vSq, t) ==
    IF Gt(vSq, Mul(t, t)) THEN Rescaled(d, Div(t, Sqrt(vSq))) ELSE d

\* the same, vSq computed from d
CapOf(d, t) ==
    Cap(d, VSqOf(d), t)

\* the velocity after the cap at temperature t
Capped(n, t) ==
    CapOf(Damped(n), t)

\* n.x += n.vx, and y, z alike, with the velocity c
Moved(n, c) ==
    [n EXCEPT !.vx = c.vx, !.vy = c.vy, !.vz = c.vz,
              !.x = Add(@, c.vx), !.y = Add(@, c.vy), !.z = Add(@, c.vz)]

\* 4. Update Positions, of one node
Move(n, t) ==
    Moved(n, Capped(n, t))

Integrate(ns, t) ==
    [i \in 1..Len(ns) |-> Move(ns[i], t)]

\* vSq > maxVelSq ? vSq : maxVelSq
Larger(vSq, m) ==
    IF Gt(vSq, m) THEN vSq ELSE m

RECURSIVE MaxVelFrom(_, _, _)
\* if (vSq > maxVelSq) maxVelSq = vSq, from node i on
MaxVelFrom(ns, i, m) ==
    IF i > Len(ns) THEN m
    ELSE MaxVelFrom(ns, i + 1, Larger(VSq(ns[i]), m))

\* a faulty break: the temperature alone decides in either tuning
FrozenCold(v, t, mv) ==
    t < TemperatureFloor(v)

\* the break at the end of an iteration, t being the cooled temperature
Frozen(v, t, mv) ==
    IF v = 1
    THEN t < TemperatureFloor(v) /\ Lt(mv, VelSqFloor)
    ELSE t < TemperatureFloor(v)

\* an edge names a node that does not exist: nodes[edge.source] is undefined
\* and reading its x throws
BadEdge(ns, es) ==
    \E e \in 1..Len(es) :
        \/ es[e].source < 0 \/ es[e].source >= Len(ns)
        \/ es[e].target < 0 \/ es[e].target >= Len(ns)

\* ------------------------------------------------------------------------
\* Finalization
\* ------------------------------------------------------------------------
RECURSIVE SumFrom(_, _, _)
SumFrom(s, i, acc) ==
    IF i > Len(s) THEN acc ELSE SumFrom(s, i + 1, Add(acc, s[i]))

\* a faulty mean: the sum is divided by one more than the length
MeanShort(s) ==
    Div(SumFrom(s, 1, Zero), F(Len(s) + 1))

\* the mean of the sequence s of numbers
Mean(s) ==
    Div(SumFrom(s, 1, Zero), F(Len(s)))

\* a faulty centering: nothing is subtracted in either tuning
CenterNone(v, ns) ==
    [x |-> Zero, y |-> Zero, z |-> Zero]

\* Final Centering: the point subtracted from every node
Center(v, ns) ==
    IF v = 1
    THEN [x |-> Zero, y |-> Zero, z |-> Zero]
    ELSE [x |-> Mean([i \in 1..Len(ns) |-> ns[i].x]),
          y |-> Mean([i \in 1..Len(ns) |-> ns[i].y]),
          z |-> Mean([i \in 1..Len(ns) |-> ns[i].z])]

\* the atoms of the nodes ns, c being the point subtracted
AtomsAround(ns, c) ==
    [i \in 1..Len(ns) |->
        [id |-> ns[i].id, element |-> ns[i].element,
         x |-> Sub(ns[i].x, c.x), y |-> Sub(ns[i].y, c.y), z |-> Sub(ns[i].z, c.z)]]

\* a faulty output map: the last node is left out
OutAtomsShort(v, ns) ==
    AtomsAround(SubSeq(ns, 1, Len(ns) - 1), Center(v, ns))

\* nodes.map(n => ({ id, element, x, y, z }))
OutAtoms(v, ns) ==
    AtomsAround(ns, Center(v, ns))

\* a faulty output: only the bonds that became edges are returned
OutputEdgeBonds(v, m, ns) ==
    [m EXCEPT !.atoms = OutAtoms(v, ns),
              !.bonds = SelectSeq(m.bonds,
                                  LAMBDA b : /\ \E i \in 1..Len(ns) : ns[i].id = b.sourceAtomId
                                             /\ \E i \in 1..Len(ns) : ns[i].id = b.targetAtomId)]

\* a faulty output: every returned bond is a single bond
OutputSingleBonds(v, m, ns) ==
    [m EXCEPT !.atoms = OutAtoms(v, ns),
              !.bonds = [i \in 1..Len(m.bonds) |-> [m.bonds[i] EXCEPT !.order = 1]]]

\* { ...molecule, atoms: ..., bonds: molecule.bonds }
Output(v, m, ns) ==
    [m EXCEPT !.atoms = OutAtoms(v, ns), !.bonds = m.bonds]


\* ------------------------------------------------------------------------
\* Inputs
\* ------------------------------------------------------------------------
IdOf(i) ==
    <<"a1", "a2", "a3", "a4", "a5", "a6", "a7", "a8">>[i]

ElementOf(i) ==
    <<"O", "H", "H", "C", "N", "H", "H", "H">>[i]

\* an id that no atom carries
Ghost == "ghost"

\* the position of atom i in a layout
\*   "origin": every atom at (0, 0, 0)
\*   "far":    atoms 1000 units apart along the x-axis, the first at 0
\*   "apart":  atoms 100 units apart along the x-axis, the first at 0
\*   "huge":   atoms 4000000 units apart along the x-axis, the square of
\*             which is not a finite number
\*   "lifted": atoms one unit apart in z
\*   "remote": every atom at (100000, 100000, 100000), where the jitter is
\*             lost in the rounding of the sum
PositionOf(layout, i) ==
    IF layout = "origin" THEN [x |-> Zero, y |-> Zero, z |-> Zero]
    ELSE IF layout = "far" THEN [x |-> F((i - 1) * 1000), y |-> Zero, z |-> Zero]
    ELSE IF layout = "apart" THEN [x |-> F((i - 1) * 100), y |-> Zero, z |-> Zero]
    ELSE IF layout = "huge" THEN [x |-> F((2 * i - 3) * 2000000), y |-> Zero, z |-> Zero]
    ELSE IF layout = "remote" THEN [x |-> F(100000), y |-> F(100000), z |-> F(100000)]
    ELSE [x |-> F(3 * i), y |-> F(0 - i), z |-> F(i - 1)]

AtomsOf(layout, n) ==
    [i \in 1..n |->
        [id |-> IdOf(i), element |-> ElementOf(i),
         x |-> PositionOf(layout, i).x,
         y |-> PositionOf(layout, i).y,
         z |-> PositionOf(layout, i).z]]

Bond(i, s, t, o) ==
    [id |-> i, sourceAtomId |-> s, targetAtomId |-> t, order |-> o]

\* the bonds of a topology over atoms 1..n, the first bond of order o
\*   "none":     no bond
\*   "chain":    a1-a2, a2-a3, ...
\*   "star":     a1-a2, a1-a3, ...
\*   "pair":     a1-a2 alone, the other atoms unbonded
\*   "self":     a bond from a1 to a1, then the chain
\*   "dangling": a bond to an id no atom carries, then the chain
BondsOf(topology, n, o) ==
    LET chain == [i \in 1..(n - 1) |->
                    Bond(i, IdOf(i), IdOf(i + 1), IF i = 1 THEN o ELSE 1)]
        star == [i \in 1..(n - 1) |->
                    Bond(i, IdOf(1), IdOf(i + 1), IF i = 1 THEN o ELSE 1)]
    IN  IF topology = "none" THEN <<>>
        ELSE IF topology = "chain" THEN chain
        ELSE IF topology = "star" THEN star
        ELSE IF topology = "pair" THEN SubSeq(chain, 1, 1)
        ELSE IF topology = "self" THEN <<Bond(0, IdOf(1), IdOf(1), o)>> \o chain
        ELSE <<Bond(0, IdOf(1), Ghost, o)>> \o chain

Mol(layout, topology, n, o) ==
    [name |-> "M", hasAtoms |-> TRUE,
     atoms |-> AtomsOf(layout, n), bonds |-> BondsOf(topology, n, o)]

\* a molecule without an atoms collection
NoAtoms ==
    [name |-> "M", hasAtoms |-> FALSE, atoms |-> <<>>, bonds |-> <<>>]

Inputs ==
    {NoAtoms, Mol("origin", "none", 0, 1)}
    \cup {Mol("origin", t, n, 1) : t \in {"none", "chain", "star", "dangling"},
                                   n \in 1..MaxAtoms}
    \cup {Mol("origin", "pair", n, 1) : n \in 3..MaxAtoms}
    \cup {Mol("far", "chain", 2, 1), Mol("apart", "chain", 2, 3)}
    \cup {Mol("huge", t, 2, 1) : t \in {"none", "chain"}}
    \cup {Mol("lifted", t, n, 1) : t \in {"none", "chain"}, n \in 2..MaxAtoms}

\* Math.random(): the numbers of [0, 1) a call draws, three per atom
RandStreams ==
    {[j \in 1..(3 * MaxAtoms) |-> Dec((j * 617 + 383) % 1000, 1000)],
     [j \in 1..(3 * MaxAtoms) |-> Dec((j * 379 + 620) % 1000, 1000)]}

\* ------------------------------------------------------------------------
\* autoLayoutMolecule
\* ------------------------------------------------------------------------
Init ==
    /\ variant \in Variants
    /\ molecule \in Inputs
    /\ pc = "idle"
    /\ nodes = <<>>
    /\ edges = <<>>
    /\ temperature = 0
    /\ k = 0
    /\ maxVelSq = Zero
    /\ result = NoAtoms
    /\ calls = 0
    /\ first = molecule
    /\ service = "none"
    /\ outcome = "none"
    /\ start = <<>>
    /\ BuilderInit

\* a faulty early return: a molecule with an empty atom list is built
CallEmptyRebuilt ==
    /\ pc = "idle"
    /\ ~molecule.hasAtoms \/ Len(molecule.atoms) = 0
    /\ result' = [molecule EXCEPT !.hasAtoms = TRUE, !.atoms = <<>>]
    /\ pc' = "done"
    /\ calls' = calls + 1
    /\ UNCHANGED <<variant, molecule, nodes, edges, temperature, k, maxVelSq,
                   first, service, outcome, start, builder>>

\* if (!molecule.atoms || molecule.atoms.length === 0) return molecule
CallEmpty ==
    /\ pc = "idle"
    /\ ~molecule.hasAtoms \/ Len(molecule.atoms) = 0
    /\ result' = molecule
    /\ pc' = "done"
    /\ calls' = calls + 1
    /\ UNCHANGED <<variant, molecule, nodes, edges, temperature, k, maxVelSq,
                   first, service, outcome, start, builder>>

\* the call up to the head of the loop
CallStart ==
    /\ pc = "idle"
    /\ molecule.hasAtoms /\ Len(molecule.atoms) > 0
    /\ \E stream \in RandStreams : nodes' = InitNodes(variant, molecule, stream)
    /\ edges' = MapEdges(variant, nodes', molecule.bonds)
    /\ temperature' = InitialTemperature(variant)
    /\ k' = 0
    /\ maxVelSq' = Zero
    /\ pc' = "loop"
    /\ calls' = calls + 1
    /\ start' = nodes'
    /\ UNCHANGED <<variant, molecule, result, first, service, outcome, builder>>

\* one pass of for (let k = 0; k < ITERATIONS; k++)
Iterate ==
    /\ pc = "loop"
    /\ IF BadEdge(nodes, edges)
       THEN /\ pc' = "threw"
            /\ UNCHANGED <<nodes, temperature, k, maxVelSq>>
       ELSE LET f == Forces(variant, nodes, edges)
                t == Cool(variant, temperature)
                mv == MaxVelFrom(f, 1, Zero)
            IN  /\ nodes' = Integrate(f, Temp(temperature))
                /\ temperature' = t
                /\ maxVelSq' = mv
                /\ IF Frozen(variant, t, mv)
                   THEN pc' = "final" /\ k' = k
                   ELSE /\ k' = k + 1
                        /\ pc' = IF k + 1 < ITERATIONS(variant) THEN "loop" ELSE "final"
    /\ UNCHANGED <<variant, molecule, edges, result, calls, first, service, outcome, start, builder>>

\* the statements after the loop
Return ==
    /\ pc = "final"
    /\ result' = Output(variant, molecule, nodes)
    /\ pc' = "done"
    /\ UNCHANGED <<variant, molecule, nodes, edges, temperature, k, maxVelSq, calls,
                   first, service, outcome, start, builder>>

\* the caller lays out the returned molecule again
Reapply ==
    /\ pc = "done"
    /\ calls < MaxCalls
    /\ molecule' = result
    /\ pc' = "idle"
    /\ UNCHANGED <<variant, nodes, edges, temperature, k, maxVelSq, result, calls,
                   first, service, outcome, start, builder>>

Next ==
    \/ CallEmpty
    \/ CallStart
    \/ Iterate
    \/ Return
    \/ Reapply

Spec == Init /\ [][Next]_vars

\* ------------------------------------------------------------------------
\* The scramble alone: flat molecules of up to MaxScrambled atoms, taken up to
\* the head of the loop
\* ------------------------------------------------------------------------
ScrambleInputs ==
    {Mol(l, t, n, 1) : l \in {"origin", "apart", "far"},
                       t \in {"none", "chain", "star", "dangling"},
                       n \in 3..MaxScrambled}

ScrambleInit ==
    /\ variant \in Variants
    /\ molecule \in ScrambleInputs
    /\ pc = "idle"
    /\ nodes = <<>>
    /\ edges = <<>>
    /\ temperature = 0
    /\ k = 0
    /\ maxVelSq = Zero
    /\ result = NoAtoms
    /\ calls = 0
    /\ first = molecule
    /\ service = "none"
    /\ outcome = "none"
    /\ start = <<>>
    /\ BuilderInit

ScrambleNext ==
    CallStart

ScrambleSpec == ScrambleInit /\ [][ScrambleNext]_vars

\* ------------------------------------------------------------------------
\* The forces alone: single calls on molecules that bring every kind of pair
\* into the loop (coincident, bonded, unbonded, far apart)
\* ------------------------------------------------------------------------
ForceInputs ==
    {Mol("origin", "chain", 2, 2), Mol("apart", "chain", 2, 3),
     Mol("huge", "chain", 2, 1), Mol("origin", "star", MaxAtoms, 1),
     Mol("origin", "pair", MaxAtoms, 1), Mol("lifted", "chain", MaxAtoms, 2),
     Mol("apart", "star", MaxAtoms, 1), Mol("far", "pair", MaxAtoms, 1),
     Mol("remote", "chain", 2, 1), Mol("origin", "self", 2, 1),
     Mol("lifted", "none", 1, 1), Mol("remote", "self", 1, 1)}

ForceInit ==
    /\ variant \in Variants
    /\ molecule \in ForceInputs
    /\ pc = "idle"
    /\ nodes = <<>>
    /\ edges = <<>>
    /\ temperature = 0
    /\ k = 0
    /\ maxVelSq = Zero
    /\ result = NoAtoms
    /\ calls = 0
    /\ first = molecule
    /\ service = "none"
    /\ outcome = "none"
    /\ start = <<>>
    /\ BuilderInit

ForceNext ==
    \/ CallStart
    \/ Iterate
    \/ Return

ForceSpec == ForceInit /\ [][ForceNext]_vars

\* ------------------------------------------------------------------------
\* getAccurate3DStructure
\* ------------------------------------------------------------------------
\* what the coordinate service does when it is asked
\*   "nokey":   process.env.API_KEY is not set
\*   "fails":   generateContent rejects
\*   "garbled": the response text is no JSON of the expected shape
\*   "answers": the response text holds atoms with coordinates
Services ==
    {"nokey", "fails", "garbled", "answers"}

Coord(i, x, y, z) ==
    [id |-> i, x |-> x, y |-> y, z |-> z]

\* data.atoms || []: an empty answer, one in Angstrom for three atoms, one
\* that names a single atom twice, one with a coordinate that is no number
Responses ==
    {<<>>,
     <<Coord("a1", Zero, Zero, Zero), Coord("a2", F(1), Zero, Zero),
       Coord("a3", Zero, F(1), F(1))>>,
     <<Coord("a2", F(5), Zero, Zero), Coord("a2", Zero, F(2), F(1))>>,
     <<Coord("a1", NaN, Zero, Zero)>>}

RECURSIVE CoordsAt(_, _, _)
\* the last entry from i down that carries the id, 0 when there is none
CoordsAt(response, id, i) ==
    IF i = 0 THEN 0
    ELSE IF response[i].id = id THEN i
    ELSE CoordsAt(response, id, i - 1)

\* newCoords.get(id): a later entry of the map replaces an earlier one
newCoords(response, id) ==
    CoordsAt(response, id, Len(response))

\* if (coords) return { ...atom, x, y, z }; return atom
Updated(atom, response, c) ==
    IF c = 0 THEN atom
    ELSE [atom EXCEPT !.x = response[c].x, !.y = response[c].y, !.z = response[c].z]

\* First pass: Update coords
updatedAtoms(m, response) ==
    [i \in 1..Len(m.atoms) |->
        Updated(m.atoms[i], response, newCoords(response, m.atoms[i].id))]

\* d of the atoms at the 0-based positions s and t, Zero when either is absent
BondLen(as, s, t) ==
    IF s < 0 \/ t < 0 THEN Zero
    ELSE Sqrt(SumSq(Sub(as[s + 1].x, as[t + 1].x),
                    Sub(as[s + 1].y, as[t + 1].y),
                    Sub(as[s + 1].z, as[t + 1].z)))

\* the lengths d > 0.1 of the bonds whose two atoms are found
BondLens(as, bonds) ==
    SelectSeq([b \in 1..Len(bonds) |->
                  BondLen(as, findIndex(as, bonds[b].sourceAtomId),
                              findIndex(as, bonds[b].targetAtomId))],
              LAMBDA d : Gt(d, Dec(1, 10)))

\* bondCount > 0 ? totalBondLen / bondCount : 0
AvgOf(ds) ==
    IF Len(ds) > 0 THEN Mean(ds) ELSE Zero

avgLen(as, bonds) ==
    AvgOf(BondLens(as, bonds))

TARGET_VISUAL_BOND_LENGTH ==
    F(3)

\* (avgLen > 0.1) ? (TARGET_VISUAL_BOND_LENGTH / avgLen) : 1
ScaleOf(avg) ==
    IF Gt(avg, Dec(1, 10)) THEN Div(TARGET_VISUAL_BOND_LENGTH, avg) ELSE F(1)

\* Second pass: Scale
Scaled(as, scale) ==
    [i \in 1..Len(as) |->
        [as[i] EXCEPT !.x = Mul(@, scale), !.y = Mul(@, scale), !.z = Mul(@, scale)]]

\* Find center, Apply centering
Centered(as) ==
    [i \in 1..Len(as) |->
        [as[i] EXCEPT !.x = Sub(@, Mean([j \in 1..Len(as) |-> as[j].x])),
                      !.y = Sub(@, Mean([j \in 1..Len(as) |-> as[j].y])),
                      !.z = Sub(@, Mean([j \in 1..Len(as) |-> as[j].z]))]]

\* the atoms as, scaled by what their bonds measure, then centered
Arranged(as, bonds) ==
    Centered(Scaled(as, ScaleOf(avgLen(as, bonds))))

\* { ...molecule, atoms: updatedAtoms }
Accurate(m, response) ==
    [m EXCEPT !.atoms = Arranged(updatedAtoms(m, response), m.bonds)]

\* the molecules handed to getAccurate3DStructure
AccurateInputs ==
    {Mol("origin", "none", 0, 1), Mol("lifted", "chain", 2, 1),
     Mol("origin", "star", MaxAtoms, 1)}

AccurateInit ==
    /\ variant \in Variants
    /\ molecule \in AccurateInputs
    /\ pc = "off"
    /\ nodes = <<>>
    /\ edges = <<>>
    /\ temperature = 0
    /\ k = 0
    /\ maxVelSq = Zero
    /\ result = NoAtoms
    /\ calls = 0
    /\ first = molecule
    /\ service \in Services
    /\ outcome = "called"
    /\ start = <<>>
    /\ BuilderInit

\* const ai = getClient() throws, outside the try block
GetClientThrows ==
    /\ outcome = "called"
    /\ service = "nokey"
    /\ outcome' = "rejected"
    /\ UNCHANGED <<variant, molecule, pc, nodes, edges, temperature, k, maxVelSq,
                   result, calls, first, service, start, builder>>

\* if (molecule.atoms.length === 0) return molecule
ReturnEmpty ==
    /\ outcome = "called"
    /\ service # "nokey"
    /\ Len(molecule.atoms) = 0
    /\ result' = molecule
    /\ outcome' = "resolved"
    /\ UNCHANGED <<variant, molecule, pc, nodes, edges, temperature, k, maxVelSq,
                   calls, first, service, start, builder>>

\* await ai.models.generateContent(...)
Request ==
    /\ outcome = "called"
    /\ service # "nokey"
    /\ Len(molecule.atoms) > 0
    /\ outcome' = "awaiting"
    /\ UNCHANGED <<variant, molecule, pc, nodes, edges, temperature, k, maxVelSq,
                   result, calls, first, service, start, builder>>

\* the try block from the response on
Answered ==
    /\ outcome = "awaiting"
    /\ service = "answers"
    /\ \E response \in Responses : result' = Accurate(molecule, response)
    /\ outcome' = "resolved"
    /\ UNCHANGED <<variant, molecule, pc, nodes, edges, temperature, k, maxVelSq,
                   calls, first, service, start, builder>>

\* catch (error): autoLayoutMolecule(molecule, 400, 400) is called
Caught ==
    /\ outcome = "awaiting"
    /\ service \in {"fails", "garbled"}
    /\ outcome' = "fallback"
    /\ pc' = "idle"
    /\ UNCHANGED <<variant, molecule, nodes, edges, temperature, k, maxVelSq,
                   result, calls, first, service, start, builder>>

\* return autoLayoutMolecule(molecule, 400, 400)
FallbackReturned ==
    /\ outcome = "fallback"
    /\ pc = "done"
    /\ outcome' = "resolved"
    /\ UNCHANGED <<variant, molecule, pc, nodes, edges, temperature, k, maxVelSq,
                   result, calls, first, service, start, builder>>

AccurateNext ==
    \/ GetClientThrows
    \/ ReturnEmpty
    \/ Request
    \/ Answered
    \/ Caught
    \/ CallStart
    \/ Iterate
    \/ Return
    \/ FallbackReturned

AccurateSpec == AccurateInit /\ [][AccurateNext]_vars

\* ------------------------------------------------------------------------
\* Properties of autoLayoutMolecule
\* ------------------------------------------------------------------------
\* a call on a molecule with atoms has returned
Returned ==
    pc = "done" /\ molecule.hasAtoms /\ Len(molecule.atoms) > 0

\* every coordinate of every atom of m is a finite number
FiniteAtoms(m) ==
    \A i \in 1..Len(m.atoms) :
        IsFinite(m.atoms[i].x) /\ IsFinite(m.atoms[i].y) /\ IsFinite(m.atoms[i].z)

\* the Euclidean distance between the atoms a and b
Distance(a, b) ==
    LET dx == Sub(a.x, b.x)
        dy == Sub(a.y, b.y)
        dz == Sub(a.z, b.z)
    IN  Sqrt(Add(Add(Mul(dx, dx), Mul(dy, dy)), Mul(dz, dz)))

\* C1 (non-degeneracy): whenever a call returns for an input of more than 2
\* atoms whose z-range is below the threshold 0.5, the z-range of the
\* returned atoms exceeds 0.5.
C1_NonDegenerate ==
    (Returned /\ needsScramble(molecule)) => Gt(zRange(result), FlatThreshold)

\* exactly two atoms joined by one bond of order 1
SingleBondPair(m) ==
    /\ m.hasAtoms
    /\ Len(m.atoms) = 2
    /\ Len(m.bonds) = 1
    /\ m.bonds[1].order = 1
    /\ {m.bonds[1].sourceAtomId, m.bonds[1].targetAtomId} = {m.atoms[1].id, m.atoms[2].id}

\* the tolerance granted to a bond length: a third of the shortest target
BondTolerance ==
    F(1)

\* C2 (bond-length approach): whenever a call returns finite positions for two
\* atoms joined by one single bond, the distance between the returned atoms
\* is within the tolerance of the single-bond target length, whatever the
\* start positions.
C2_BondLengthApproach ==
    (pc = "done" /\ SingleBondPair(molecule) /\ FiniteAtoms(result)) =>
        Lt(Abs(Sub(Distance(result.atoms[1], result.atoms[2]), LENGTH_SINGLE(variant))),
           BondTolerance)

\* the ids of the atoms of m
AtomIds(m) ==
    {m.atoms[i].id : i \in 1..Len(m.atoms)}

\* the bonds of m, as a set
BondSet(m) ==
    {m.bonds[i] : i \in 1..Len(m.bonds)}

\* the bond b joins two atoms of m
ValidBond(m, b) ==
    b.sourceAtomId \in AtomIds(m) /\ b.targetAtomId \in AtomIds(m)

\* the positions in m.bonds of the bonds with an endpoint that is no atom
Dangling(m) ==
    {i \in 1..Len(m.bonds) : ~ValidBond(m, m.bonds[i])}

\* C3 (atom invariance): whenever a call on a non-empty input returns, the
\* output has as many atoms as the input and the i-th output atom carries the
\* id and the element of the i-th input atom.
C3_AtomInvariance ==
    Returned =>
        /\ Len(result.atoms) = Len(molecule.atoms)
        /\ \A i \in 1..Len(molecule.atoms) :
              /\ result.atoms[i].id = molecule.atoms[i].id
              /\ result.atoms[i].element = molecule.atoms[i].element

\* C3 happens: a call on three atoms or more has returned moved atoms
C3_Witness ==
    /\ Returned
    /\ Len(molecule.atoms) >= 3
    /\ \E i \in 1..Len(molecule.atoms) : result.atoms[i].x # molecule.atoms[i].x

\* C4 as stated (bond-count invariance): whenever a call returns, the output
\* bonds are exactly the input bonds whose both endpoints are atoms of the
\* input: a subset of them, with none of them missing.
C4_Original ==
    Returned => BondSet(result) = {b \in BondSet(molecule) : ValidBond(molecule, b)}

\* C4 as the code has it: whenever a call returns, the output bonds are the
\* input bonds, those with a missing endpoint included: none is invented and
\* none is dropped; only the edge list leaves the dangling bonds out.
C4_BondSetKept ==
    Returned =>
        /\ BondSet(result) = BondSet(molecule)
        /\ Len(edges) = Len(molecule.bonds) - Cardinality(Dangling(molecule))

\* C4 happens: a call has returned a bond whose target is no atom
C4_Witness ==
    /\ Returned
    /\ Dangling(molecule) # {}
    /\ \E b \in BondSet(result) : b.targetAtomId = Ghost
    /\ Len(edges) > 0

\* C5 (bonds pass through): whenever a call returns, the returned bonds are
\* the input bonds: same bonds, endpoints, orders and sequence.
C5_BondsUnchanged ==
    pc = "done" => result.bonds = molecule.bonds

\* C5 happens: a call has returned moved atoms and a bond of order 3
C5_Witness ==
    /\ Returned
    /\ result.atoms # molecule.atoms
    /\ \E i \in 1..Len(result.bonds) : result.bonds[i].order = 3

\* C6 (malformed bond reference): a bond with an endpoint that is no atom is
\* no simulated edge, every simulated edge indexes two nodes, and the call
\* neither throws nor runs more than ITERATIONS passes.
C6_DanglingBondExcluded ==
    /\ pc # "threw"
    /\ (pc \in {"loop", "final", "done"} /\ molecule.hasAtoms /\ Len(molecule.atoms) > 0) =>
          /\ \A e \in 1..Len(edges) :
                /\ edges[e].source \in 0..(Len(nodes) - 1)
                /\ edges[e].target \in 0..(Len(nodes) - 1)
          /\ Len(edges) = Len(molecule.bonds) - Cardinality(Dangling(molecule))
          /\ k <= ITERATIONS(variant)

\* C6 happens: a call on a molecule with a dangling bond and valid bonds
\* has run its loop and returned
C6_Witness ==
    /\ Returned
    /\ Dangling(molecule) # {}
    /\ Len(edges) > 0
    /\ k > 0

\* the position, velocity and force components of the node n
NodeNumbers(n) ==
    {n.x, n.y, n.z, n.vx, n.vy, n.vz, n.fx, n.fy, n.fz}

\* C7 (numerical degeneracy): during and after a call on an input whose
\* coordinates are all finite, no position, velocity or force of a node
\* is NaN.
C7_NoNaN ==
    (pc \in {"loop", "final", "done"} /\ molecule.hasAtoms /\ FiniteAtoms(molecule)) =>
        \A i \in 1..Len(nodes) : NaN \notin NodeNumbers(nodes[i])

\* the input has no atoms collection or no atom
EmptyInput ==
    ~molecule.hasAtoms \/ Len(molecule.atoms) = 0

\* C8 (empty graph): a call on an input without atoms returns the input
\* itself, builds no node, never enters the loop and never throws.
C8_EmptyGraph ==
    EmptyInput =>
        /\ pc \in {"idle", "done"}
        /\ pc = "done" => result = molecule
        /\ nodes = <<>> /\ edges = <<>>
        /\ k = 0 /\ temperature = 0

\* C8 happens: a call on an input without an atoms collection has returned
C8_Witness ==
    pc = "done" /\ ~molecule.hasAtoms /\ calls > 0

\* the nodes ns are freshly built from the molecule m: one per atom, in
\* order, at rest, and (unless scrambled) within the jitter of the atom
FreshNodes(v, ns, m) ==
    /\ Len(ns) = Len(m.atoms)
    /\ \A i \in 1..Len(ns) :
          /\ ns[i].id = m.atoms[i].id
          /\ ns[i].vx = Zero /\ ns[i].vy = Zero /\ ns[i].vz = Zero
          /\ ns[i].fx = Zero /\ ns[i].fy = Zero /\ ns[i].fz = Zero
          /\ (~needsScramble(m) /\ FiniteAtoms(m)) =>
                /\ ~Gt(Abs(Sub(ns[i].x, m.atoms[i].x)), JitterScale(v))
                /\ ~Gt(Abs(Sub(ns[i].y, m.atoms[i].y)), JitterScale(v))
                /\ ~Gt(Abs(Sub(ns[i].z, m.atoms[i].z)), JitterScale(v))

\* C9 (no side effects, no state between calls): no step of a call changes
\* the input molecule, and every call, the first as well as a later one,
\* enters its loop with freshly built nodes of zero velocity and zero force.
C9_NoSideEffects ==
    [][/\ pc # "done" => molecule' = molecule
       /\ (pc = "idle" /\ pc' = "loop") => FreshNodes(variant, nodes', molecule')]_vars

\* C9 happens: a second call, made on the molecule the first call returned,
\* has built its nodes and stands at the head of its loop
C9_Witness ==
    /\ pc = "loop" /\ k = 0 /\ calls = 2
    /\ FreshNodes(variant, nodes, molecule)
    /\ temperature = InitialTemperature(variant)

\* the centroid of the atoms of m
Centroid(m) ==
    [x |-> Mean([i \in 1..Len(m.atoms) |-> m.atoms[i].x]),
     y |-> Mean([i \in 1..Len(m.atoms) |-> m.atoms[i].y]),
     z |-> Mean([i \in 1..Len(m.atoms) |-> m.atoms[i].z])]

\* what rounding may leave of a zero centroid
CentroidTolerance ==
    Dec(5, 100)

\* the point p is within tol of the origin in every coordinate
Within(p, tol) ==
    Lt(Abs(p.x), tol) /\ Lt(Abs(p.y), tol) /\ Lt(Abs(p.z), tol)

\* the point p is the origin, up to rounding
AtOrigin(p) ==
    Within(p, CentroidTolerance)

TripleBondPair(m) ==
    /\ m.hasAtoms
    /\ Len(m.atoms) = 2
    /\ Len(m.bonds) = 1
    /\ m.bonds[1].order = 3
    /\ {m.bonds[1].sourceAtomId, m.bonds[1].targetAtomId} = {m.atoms[1].id, m.atoms[2].id}
    /\ Sub(m.atoms[2].x, m.atoms[1].x) = F(100)
    /\ m.atoms[2].y = m.atoms[1].y
    /\ m.atoms[2].z = m.atoms[1].z

\* C11 (triple-bond pair): whenever a call returns finite positions for two
\* atoms joined by one bond of order 3 that started 100 units apart along the
\* x-axis, the distance between the returned atoms is within the tolerance of
\* the triple-bond target length and below the single-bond target length.
C11_TripleBondPair ==
    (pc = "done" /\ TripleBondPair(molecule) /\ FiniteAtoms(result)) =>
        /\ Lt(Abs(Sub(Distance(result.atoms[1], result.atoms[2]), LENGTH_TRIPLE)),
              BondTolerance)
        /\ Lt(Distance(result.atoms[1], result.atoms[2]), LENGTH_SINGLE(variant))

\* the positions in m.atoms of the atoms that no bond of m names
Unbonded(m) ==
    {i \in 1..Len(m.atoms) :
        \A b \in 1..Len(m.bonds) :
            m.atoms[i].id \notin {m.bonds[b].sourceAtomId, m.bonds[b].targetAtomId}}

\* a bonded cluster next to at least one atom without bonds
ClusterAndLoose(m) ==
    /\ m.hasAtoms
    /\ Unbonded(m) # {}
    /\ \E b \in 1..Len(m.bonds) : ValidBond(m, m.bonds[b])

OriginPoint ==
    [x |-> Zero, y |-> Zero, z |-> Zero]

\* the distance from the origin that counts as near: ten scramble radii
FarLimit(v) ==
    Mul(F(10), radius(v))

\* every atom of m is a finite point less than FarLimit from the origin
Near(v, m) ==
    \A i \in 1..Len(m.atoms) : Lt(Distance(m.atoms[i], OriginPoint), FarLimit(v))

\* C12 (disconnected atom): whenever a call returns for a bonded cluster plus
\* atoms without bonds that started less than ten scramble radii from the
\* origin, every returned atom without bonds has finite coordinates and lies
\* less than ten scramble radii from the origin.
C12_DisconnectedAtom ==
    (pc = "done" /\ ClusterAndLoose(molecule) /\ Near(variant, molecule)) =>
        \A i \in Unbonded(molecule) :
            /\ IsFinite(result.atoms[i].x)
            /\ IsFinite(result.atoms[i].y)
            /\ IsFinite(result.atoms[i].z)
            /\ Lt(Distance(result.atoms[i], OriginPoint), FarLimit(variant))

\* C12 happens: a first call has returned an atom without bonds that the
\* cluster pushed out of the scramble sphere
C12_Witness ==
    /\ pc = "done"
    /\ calls = 1
    /\ ClusterAndLoose(molecule)
    /\ Near(variant, molecule)
    /\ \E i \in Unbonded(molecule) :
          Gt(Distance(result.atoms[i], OriginPoint), radius(variant))

\* C13 (convergence under re-application): whenever the second of two calls
\* in sequence returns, the first one having started from a flat input that
\* was scrambled, the second call has moved every atom by less than the first
\* call moved it, the tolerance of a bond length granted.
C13_Reapplication ==
    (pc = "done" /\ calls = 2 /\ first.hasAtoms /\ needsScramble(first)
        /\ FiniteAtoms(result)) =>
        \A i \in 1..Len(first.atoms) :
            Lt(Distance(molecule.atoms[i], result.atoms[i]),
               Add(Distance(first.atoms[i], molecule.atoms[i]), BondTolerance))

\* C14 (fallback to the engine): for a molecule with atoms, whenever the
\* coordinate service fails or is unavailable, the promise of
\* getAccurate3DStructure is not rejected, and once it is resolved it holds
\* what autoLayoutMolecule returned for the molecule.
C14_Fallback ==
    (Len(molecule.atoms) > 0 /\ service \in {"nokey", "fails", "garbled"}) =>
        /\ outcome # "rejected"
        /\ outcome = "resolved" => (pc = "done" /\ result = Output(variant, molecule, nodes))

\* the z of the atom a, a missing one counting as 0
ZOf(a) ==
    IF IsNaN(a.z) THEN Zero ELSE a.z

\* more than two atoms, and no two of them 0.5 or more apart in z
Flat(m) ==
    /\ Len(m.atoms) > 2
    /\ \A i, j \in 1..Len(m.atoms) :
          Lt(Sub(ZOf(m.atoms[i]), ZOf(m.atoms[j])), FlatThreshold)

\* the nodes have just been built: the call stands at the head of the loop
NodesBuilt ==
    pc = "loop" /\ k = 0 /\ molecule.hasAtoms

\* what rounding a sum next to the number a can add to it
RoundingOf(a) ==
    Mul(Abs(a), Dec(1, 2 ^ 13))

\* the number to is the number from plus an offset of at most half the
\* jitter scale, rounded
Jittered(v, from, to) ==
    ~Gt(Abs(Sub(to, from)), Add(Mul(Dec(5, 10), JitterScale(v)), RoundingOf(from)))

\* C15 (initial-state classification): when the nodes have just been built,
\* every node stands on its point of the scramble sphere if the input has
\* more than 2 atoms and a z-range below 0.5 (a missing z counting as 0);
\* otherwise every node stands within half the jitter scale of its atom in
\* x, y and z, up to the rounding of the sum.
C15_Classification ==
    NodesBuilt =>
        \A i \in 1..Len(nodes) :
            IF Flat(molecule)
            THEN /\ nodes[i].x = Scramble(variant, i - 1, Len(nodes)).x
                 /\ nodes[i].y = Scramble(variant, i - 1, Len(nodes)).y
                 /\ nodes[i].z = Scramble(variant, i - 1, Len(nodes)).z
            ELSE /\ Jittered(variant, molecule.atoms[i].x, nodes[i].x)
                 /\ Jittered(variant, molecule.atoms[i].y, nodes[i].y)
                 /\ Jittered(variant, ZOf(molecule.atoms[i]), nodes[i].z)

\* C15 happens: the nodes of three atoms lifted in z have just been built,
\* jittered and not scrambled
C15_Witness ==
    /\ NodesBuilt
    /\ Len(nodes) > 2
    /\ ~Flat(molecule)
    /\ \E i \in 1..Len(nodes) : nodes[i].x # molecule.atoms[i].x
    /\ \E i \in 1..Len(nodes) : nodes[i].x # Scramble(variant, i - 1, Len(nodes)).x

\* y = (1 - 2i/(n-1)) * R, for the 0-based index i
SphereY(v, i, n) ==
    Mul(Sub(F(1), Div(F(2 * i), F(n - 1))), radius(v))

\* r = sqrt(1 - (y/R)^2)
SphereR(v, y) ==
    Sqrt(Sub(F(1), Mul(Div(y, radius(v)), Div(y, radius(v)))))

\* x = cos(i * 2.39996) * r * R and z = sin(i * 2.39996) * r * R
SphereX(v, i, r) ==
    Mul(Mul(Cos(Mul(F(i), Dec(239996, 100000))), r), radius(v))

SphereZ(v, i, r) ==
    Mul(Mul(Sin(Mul(F(i), Dec(239996, 100000))), r), radius(v))

\* the numbers a and b differ by less than a hundredth
Close(a, b) ==
    Lt(Abs(Sub(a, b)), Dec(1, 100))

\* the node at position i (1-based) of n stands where the formula puts it
OnFormula(v, node, i, n) ==
    /\ Close(node.y, SphereY(v, i - 1, n))
    /\ Close(node.x, SphereX(v, i - 1, SphereR(v, SphereY(v, i - 1, n))))
    /\ Close(node.z, SphereZ(v, i - 1, SphereR(v, SphereY(v, i - 1, n))))

\* b - a, as a vector
Minus(b, a) ==
    [x |-> Sub(b.x, a.x), y |-> Sub(b.y, a.y), z |-> Sub(b.z, a.z)]

\* the vector product u x w
Cross(u, w) ==
    [x |-> Sub(Mul(u.y, w.z), Mul(u.z, w.y)),
     y |-> Sub(Mul(u.z, w.x), Mul(u.x, w.z)),
     z |-> Sub(Mul(u.x, w.y), Mul(u.y, w.x))]

\* the scalar product u . w
Dot(u, w) ==
    Add(Add(Mul(u.x, w.x), Mul(u.y, w.y)), Mul(u.z, w.z))

\* the volume spanned by the points a, b, c, d, signed
Volume(a, b, c, d) ==
    Dot(Minus(b, a), Cross(Minus(c, a), Minus(d, a)))

\* no two of the nodes stand at the same point
PairwiseDistinct(ns) ==
    \A i, j \in 1..Len(ns) :
        i # j => <<ns[i].x, ns[i].y, ns[i].z>> # <<ns[j].x, ns[j].y, ns[j].z>>

\* the nodes do not all lie in one plane: four of them span a volume
NonCoplanar(ns) ==
    \E a, b, c, d \in 1..Len(ns) :
        Gt(Abs(Volume(ns[a], ns[b], ns[c], ns[d])), F(1))

\* the nodes do not all lie on one line: three of them span an area
NonCollinear(ns) ==
    \E a, b, c \in 1..Len(ns) :
        Gt(SumSq(Cross(Minus(ns[b], ns[a]), Minus(ns[c], ns[a])).x,
                 Cross(Minus(ns[b], ns[a]), Minus(ns[c], ns[a])).y,
                 Cross(Minus(ns[b], ns[a]), Minus(ns[c], ns[a])).z), F(1))

\* the nodes of a flat molecule have just been built
Scrambled ==
    NodesBuilt /\ Flat(molecule)

\* C16 as stated (spherical scramble): when the nodes of a flat input of n > 2
\* atoms have just been built, node i stands at x = cos(i*2.39996)*r*R,
\* y = (1 - 2i/(n-1))*R, z = sin(i*2.39996)*r*R with r = sqrt(1 - (y/R)^2),
\* the nodes are pairwise distinct, and they do not lie in one plane.
C16_Original ==
    Scrambled =>
        /\ \A i \in 1..Len(nodes) : OnFormula(variant, nodes[i], i, Len(nodes))
        /\ PairwiseDistinct(nodes)
        /\ NonCoplanar(nodes)

\* C16 as the code has it: when the nodes of a flat input of n > 2 atoms have
\* just been built, node i stands where the formula puts it and the nodes are
\* pairwise distinct and not on one line, whatever the input positions and
\* bonds; they do not lie in one plane if n > 3, while the three nodes of
\* n = 3 lie in one plane, as any three points do.
C16_Scramble ==
    Scrambled =>
        /\ \A i \in 1..Len(nodes) : OnFormula(variant, nodes[i], i, Len(nodes))
        /\ PairwiseDistinct(nodes)
        /\ NonCollinear(nodes)
        /\ NonCoplanar(nodes) <=> Len(nodes) > 3

\* C16 happens: the nodes of a flat input of four atoms or more, given apart
\* and bonded, have just been built
C16_Witness ==
    /\ Scrambled
    /\ Len(nodes) > 3
    /\ molecule.atoms[2].x # molecule.atoms[1].x
    /\ Len(edges) > 0
    /\ nodes[2].x # molecule.atoms[2].x

\* the loop of a call on a molecule with atoms has been left
LoopLeft ==
    pc \in {"final", "done"} /\ molecule.hasAtoms /\ Len(molecule.atoms) > 0

\* C17 as stated (early termination): the loop never runs more passes than
\* the iteration cap, and whenever it has been left before the cap, the
\* temperature is below its floor and the largest squared velocity of the
\* last pass is below its floor.
C17_Original ==
    /\ k <= ITERATIONS(variant)
    /\ (LoopLeft /\ k < ITERATIONS(variant)) =>
          /\ temperature < TemperatureFloor(variant)
          /\ Lt(maxVelSq, VelSqFloor)

\* C17 as the code has it: the loop never runs more passes than the
\* iteration cap; whenever it has been left before the cap the temperature is
\* below its floor, and in the first definition the largest squared velocity
\* of the last pass is below its floor as well, while the second definition
\* does not look at the velocity; and the loop goes on after a pass only if
\* that does not hold.
C17_EarlyTermination ==
    /\ k <= ITERATIONS(variant)
    /\ (LoopLeft /\ k < ITERATIONS(variant)) =>
          /\ temperature < TemperatureFloor(variant)
          /\ variant = 1 => Lt(maxVelSq, VelSqFloor)
    /\ (pc = "loop" /\ k > 0) =>
          \/ temperature >= TemperatureFloor(variant)
          \/ variant = 1 /\ ~Lt(maxVelSq, VelSqFloor)

\* C17 happens: the first definition has left its loop before the cap, after
\* passes in which the atoms moved
C17_Witness ==
    /\ LoopLeft
    /\ variant = 1
    /\ 0 < k /\ k < ITERATIONS(variant)
    /\ maxVelSq # Zero

\* a * a
Square(a) ==
    Mul(a, a)

RECURSIVE Power(_, _)
\* a^n, for n >= 0
Power(a, n) ==
    IF n = 0 THEN F(1)
    ELSE IF n % 2 = 0 THEN Square(Power(a, n \div 2))
    ELSE Mul(a, Power(a, n - 1))

\* T0 * coolingFactor^n
Schedule(v, n) ==
    IF v = 1 THEN Mul(F(20), Power(Dec(95, 100), n))
    ELSE Mul(F(10), Power(Dec(97, 100), n))

\* the velocity of the node n holds no NaN
VelocityIsNumber(n) ==
    ~IsNaN(n.vx) /\ ~IsNaN(n.vy) /\ ~IsNaN(n.vz)

\* the speed of the node n is at most the temperature t, a thousandth of
\* t * t granted to rounding
NotFaster(n, t) ==
    ~Gt(VSqOf(n), Mul(Mul(t, t), Dec(1001, 1000)))

\* C18 (annealed velocity clamp): in every pass of the loop, the velocity
\* that is added to the position of a node is, when it is a number, no longer
\* than the temperature of that pass; the pass lowers the temperature (as
\* long as the millionths of the model can show it), and after the pass
\* number k + 1 the temperature is T0 * coolingFactor^(k + 1) within a
\* hundredth.
C18_VelocityClamp ==
    [][(pc = "loop" /\ pc' # "threw") =>
          /\ \A i \in 1..Len(nodes') :
                VelocityIsNumber(nodes'[i]) =>
                    /\ NotFaster(nodes'[i], Temp(temperature))
                    /\ nodes'[i].x = Add(nodes[i].x, nodes'[i].vx)
                    /\ nodes'[i].y = Add(nodes[i].y, nodes'[i].vy)
                    /\ nodes'[i].z = Add(nodes[i].z, nodes'[i].vz)
          /\ temperature > 0 => temperature' < temperature
          /\ temperature' <= temperature
          /\ Close(Temp(temperature'), Schedule(variant, k + 1))]_vars

\* C18 happens: a pass has scaled the fastest node down to the temperature
C18_Witness ==
    /\ pc = "loop"
    /\ k > 0
    /\ \A i \in 1..Len(nodes) : Gt(maxVelSq, VSqOf(nodes[i]))
    /\ \E i \in 1..Len(nodes) : Gt(VSqOf(nodes[i]), Square(Temp(temperature)))

\* the forces of the nodes ns before gravity
BeforeGravity(v, ns, es) ==
    Attraction(v, Repulsion(v, ResetForces(ns)), es)

\* acc + f and acc - f, for forces
Plus(acc, f) ==
    [fx |-> Add(acc.fx, f.fx), fy |-> Add(acc.fy, f.fy), fz |-> Add(acc.fz, f.fz)]

Less(acc, f) ==
    [fx |-> Sub(acc.fx, f.fx), fy |-> Sub(acc.fy, f.fy), fz |-> Sub(acc.fz, f.fz)]

NoForce ==
    [fx |-> Zero, fy |-> Zero, fz |-> Zero]

RECURSIVE PushedFrom(_, _, _, _, _)
\* what the nodes j, j + 1, ... other than i push the node i with, each once
PushedFrom(v, ns, i, j, acc) ==
    IF j > Len(ns) THEN acc
    ELSE IF j = i THEN PushedFrom(v, ns, i, j + 1, acc)
    ELSE PushedFrom(v, ns, i, j + 1, Plus(acc, RepulsionOf(v, ns[i], ns[j])))

RECURSIVE PulledFrom(_, _, _, _, _, _)
\* what the edges e, e + 1, ... add to the force acc of the node i: the
\* spring for its source, the opposite for its target
PulledFrom(v, ns, es, i, e, acc) ==
    IF e > Len(es) THEN acc
    ELSE PulledFrom(v, ns, es, i, e + 1,
             IF es[e].source + 1 = i
             THEN Plus(acc, SpringOf(v, ns[i], ns[es[e].target + 1], es[e].len))
             ELSE IF es[e].target + 1 = i
             THEN Less(acc, SpringOf(v, ns[es[e].source + 1], ns[i], es[e].len))
             ELSE acc)

\* the force on the node i, summed over the other nodes and its edges
ForceOn(v, ns, es, i) ==
    PulledFrom(v, ns, es, i, 1, PushedFrom(v, ns, i, 1, NoForce))

\* the sum of the numbers s is zero up to rounding: within a hundredth plus
\* a thousandth of the sum of their magnitudes
Balanced(s) ==
    ~Gt(Abs(SumFrom(s, 1, Zero)),
        Add(Dec(1, 100),
            Mul(SumFrom([i \in 1..Len(s) |-> Abs(s[i])], 1, Zero), Dec(1, 1000))))

\* every force of fs is a finite number
FiniteForces(fs) ==
    \A i \in 1..Len(fs) : IsFinite(fs[i].fx) /\ IsFinite(fs[i].fy) /\ IsFinite(fs[i].fz)

\* the forces fs are those of Newton's third law for the nodes ns
ThirdLaw(v, ns, es, fs) ==
    /\ \A i \in 1..Len(ns) :
          ForceOn(v, ns, es, i) = [fx |-> fs[i].fx, fy |-> fs[i].fy, fz |-> fs[i].fz]
    /\ FiniteForces(fs) =>
          /\ Balanced([i \in 1..Len(fs) |-> fs[i].fx])
          /\ Balanced([i \in 1..Len(fs) |-> fs[i].fy])
          /\ Balanced([i \in 1..Len(fs) |-> fs[i].fz])

\* C19 (Newton's third law): at the head of every pass, the force that the
\* repulsion loop and the bond loop accumulate on a node is the repulsion of
\* every other node, each counted once, plus the spring of each of its edges,
\* with opposite signs at the two ends; so the forces before gravity, when
\* they are finite, sum to zero up to rounding.
C19_ThirdLaw ==
    (pc = "loop" /\ ~BadEdge(nodes, edges)) =>
        ThirdLaw(variant, nodes, edges, BeforeGravity(variant, nodes, edges))

\* C19 happens: three nodes or more with edges are in the loop, and forces
\* act on them
C19_Witness ==
    /\ pc = "loop"
    /\ k > 0
    /\ Len(nodes) > 2
    /\ Len(edges) > 0
    /\ \E i \in 1..Len(nodes) : nodes[i].fx # Zero

\* the rest length that the claim gives a bond of the order o
RestLength(v, o) ==
    IF o = 1 THEN LENGTH_SINGLE(v)
    ELSE IF o = 2 THEN LENGTH_DOUBLE(v)
    ELSE LENGTH_TRIPLE

\* the numbers a and b differ by less than a thousandth plus a hundredth of b
Near100(a, b) ==
    Lt(Abs(Sub(a, b)), Add(Dec(1, 1000), Mul(Abs(b), Dec(1, 100))))

\* f, the force on the first end of a spring of rest length len whose second
\* end lies at the distance d in the direction to, is K_SPRING * |d - len|
\* strong, points to the second end if d > len and away from it if d < len
Hookean(v, f, to, d, len) ==
    /\ Near100(Sqrt(SumSq(f.fx, f.fy, f.fz)), Mul(K_SPRING(v), Abs(Sub(d, len))))
    /\ Gt(d, len) => Gt(Add(Add(Mul(f.fx, to.x), Mul(f.fy, to.y)), Mul(f.fz, to.z)), Zero)
    /\ Lt(d, len) => Lt(Add(Add(Mul(f.fx, to.x), Mul(f.fy, to.y)), Mul(f.fz, to.z)), Zero)

\* the spring between the nodes n1 and n2, a positive finite distance apart,
\* acts on n1 as Hooke's law says, and on n2 with the opposite force
SpringActs(v, n1, n2, len) ==
    (IsFinite(Distance(n1, n2)) /\ Gt(Distance(n1, n2), Zero)) =>
        /\ Hookean(v, SpringOf(v, n1, n2, len), Minus(n2, n1), Distance(n1, n2), len)
        /\ Hookean(v, Less(NoForce, SpringOf(v, n1, n2, len)), Minus(n1, n2),
                   Distance(n1, n2), len)

\* C20 (bond springs): single > double > triple rest length; in every pass,
\* the edge of a bond of order 1, 2, 3 has the single, double, triple rest
\* length, and its spring, the ends being a positive finite distance apart,
\* acts on each end with K_SPRING * |distance - rest length|, towards the
\* other end when the distance is above the rest length and away from it
\* when it is below.
C20_BondSprings ==
    /\ Gt(LENGTH_SINGLE(variant), LENGTH_DOUBLE(variant))
    /\ Gt(LENGTH_DOUBLE(variant), LENGTH_TRIPLE)
    /\ (pc = "loop" /\ ~BadEdge(nodes, edges) /\ Dangling(molecule) = {}) =>
          \A e \in 1..Len(edges) :
              /\ edges[e].len = RestLength(variant, molecule.bonds[e].order)
              /\ SpringActs(variant, nodes[edges[e].source + 1],
                            nodes[edges[e].target + 1], edges[e].len)

\* C20 happens: in one pass a double bond shorter than its rest length pushes
\* its ends apart, or a triple bond longer than its rest length pulls them
C20_Witness ==
    /\ pc = "loop"
    /\ k > 0
    /\ \E e \in 1..Len(edges) :
          \/ /\ molecule.bonds[e].order = 2
             /\ Lt(Distance(nodes[edges[e].source + 1], nodes[edges[e].target + 1]),
                   edges[e].len)
          \/ /\ molecule.bonds[e].order = 3
             /\ Gt(Distance(nodes[edges[e].source + 1], nodes[edges[e].target + 1]),
                   edges[e].len)

\* ------------------------------------------------------------------------
\* simulateReaction: one product of the parsed response is made a molecule
\* without coordinates and laid out (the copy of the function that accepts
\* coordinates from the response agrees on products that bring none)
\* ------------------------------------------------------------------------
\* an order field that the response leaves out
NoOrder == 0 - 1

\* the orders a bond of the response may carry
ProductOrders ==
    {NoOrder, 0, 1, 2, 3, 4}

\* a product of n atoms in a chain, the first bond of the order o; if
\* nameless, the last atom comes without an id
Product(n, nameless, o) ==
    [name |-> "",
     atoms |-> [i \in 1..n |->
                  [id |-> IF nameless /\ i = n THEN "" ELSE IdOf(i),
                   element |-> ElementOf(i)]],
     bonds |-> [i \in 1..(n - 1) |->
                  [source |-> IdOf(i), target |-> IdOf(i + 1),
                   order |-> IF i = 1 THEN o ELSE 1]]]

\* a product of two atoms, the first bonded to itself
SelfBonded ==
    [Product(2, FALSE, 1) EXCEPT
        !.bonds = <<[source |-> IdOf(1), target |-> IdOf(1), order |-> 1]>>]

Products ==
    {Product(n, nameless, 1) : n \in 0..MaxAtoms, nameless \in BOOLEAN}
    \cup {Product(n, FALSE, o) : n \in {2, MaxAtoms}, o \in ProductOrders}
    \cup {SelfBonded}

\* a.id && a.element
HasIdAndElement(a) ==
    a.id # "" /\ a.element # ""

\* (p.atoms || []).filter(a => a.id && a.element)
validAtoms(p) ==
    SelectSeq(p.atoms, HasIdAndElement)

\* new Set(validAtoms.map(a => String(a.id)))
atomIdSet(p) ==
    {validAtoms(p)[i].id : i \in 1..Len(validAtoms(p))}

\* the bonds whose source and target are both in the set of ids
validBonds(p) ==
    LET known(b) == b.source \in atomIdSet(p) /\ b.target \in atomIdSet(p)
    IN  SelectSeq(p.bonds, known)

\* b.order || 1
OrderOrOne(o) ==
    IF o = NoOrder \/ o = 0 THEN 1 ELSE o

\* a faulty construction: the atoms are stacked one unit apart in z
rawMoleculeStacked(p) ==
    [name |-> IF p.name = "" THEN "Product" ELSE p.name,
     hasAtoms |-> TRUE,
     atoms |-> [i \in 1..Len(validAtoms(p)) |->
                  [id |-> validAtoms(p)[i].id,
                   element |-> validAtoms(p)[i].element,
                   x |-> Zero, y |-> Zero, z |-> F(i)]],
     bonds |-> [i \in 1..Len(validBonds(p)) |->
                  Bond(i - 1, validBonds(p)[i].source, validBonds(p)[i].target,
                       OrderOrOne(validBonds(p)[i].order))]]

\* the molecule built from the product p: every atom at (0, 0, 0)
rawMolecule(p) ==
    [name |-> IF p.name = "" THEN "Product" ELSE p.name,
     hasAtoms |-> TRUE,
     atoms |-> [i \in 1..Len(validAtoms(p)) |->
                  [id |-> validAtoms(p)[i].id,
                   element |-> validAtoms(p)[i].element,
                   x |-> Zero, y |-> Zero, z |-> Zero]],
     bonds |-> [i \in 1..Len(validBonds(p)) |->
                  Bond(i - 1, validBonds(p)[i].source, validBonds(p)[i].target,
                       OrderOrOne(validBonds(p)[i].order))]]

\* the response holds one product; first is that product
ReactionInit ==
    /\ variant \in Variants
    /\ first \in Products
    /\ molecule = NoAtoms
    /\ pc = "product"
    /\ nodes = <<>>
    /\ edges = <<>>
    /\ temperature = 0
    /\ k = 0
    /\ maxVelSq = Zero
    /\ result = NoAtoms
    /\ calls = 0
    /\ service = "answers"
    /\ outcome = "none"
    /\ start = <<>>
    /\ BuilderInit

\* the body of products.map up to the call of autoLayoutMolecule
simulateReaction ==
    /\ pc = "product"
    /\ molecule' = rawMolecule(first)
    /\ pc' = "idle"
    /\ UNCHANGED <<variant, nodes, edges, temperature, k, maxVelSq, result, calls,
                   first, service, outcome, start, builder>>

ReactionNext ==
    \/ simulateReaction
    \/ CallEmpty
    \/ CallStart
    \/ Iterate
    \/ Return

ReactionSpec == ReactionInit /\ [][ReactionNext]_vars


\* ------------------------------------------------------------------------
\* Properties of simulateReaction
\* ------------------------------------------------------------------------
\* every atom of m is at (0, 0, 0)
AllZero(m) ==
    \A i \in 1..Len(m.atoms) :
        m.atoms[i].x = Zero /\ m.atoms[i].y = Zero /\ m.atoms[i].z = Zero

\* every node stands on its point of the scramble sphere
AllOnSphere ==
    \A i \in 1..Len(nodes) : OnFormula(variant, nodes[i], i, Len(nodes))

\* every node stands within half the jitter scale of the origin
AllAtJitter ==
    \A i \in 1..Len(nodes) :
        /\ Jittered(variant, Zero, nodes[i].x)
        /\ Jittered(variant, Zero, nodes[i].y)
        /\ Jittered(variant, Zero, nodes[i].z)

Passes ==
    IF k < ITERATIONS(variant) THEN k + 1 ELSE k

\* the number of coolings after which T0 * c^n is below the floor
PassesNeeded(v) ==
    IF v = 1 THEN 104 ELSE 174

\* C22 (iteration count): the loop is left only with the temperature below
\* its floor, after at least 104 passes where the schedule is 20 * 0.95^k
\* against 0.1 and after exactly 174 passes, short of the cap of 800, where
\* it is 10 * 0.97^k against 0.05 with the temperature as the only exit;
\* while the call is in the loop, the k passes it has run leave the
\* temperature at or above the floor exactly if they are fewer than that.
C22_IterationCount ==
    /\ pc = "final" =>
          /\ temperature < TemperatureFloor(variant)
          /\ Passes >= PassesNeeded(variant)
          /\ variant = 2 => (Passes = PassesNeeded(variant) /\ k < ITERATIONS(variant))
    /\ pc = "loop" =>
          (k < PassesNeeded(variant) <=> temperature >= TemperatureFloor(variant))

\* C22 happens: a call on three bonded atoms has left the loop of the second
\* tuning in its pass 174, and one on atoms far apart has run the first
\* tuning to more passes than the schedule needs
C22_Witness ==
    /\ pc = "final"
    /\ \/ variant = 2 /\ Passes = 174 /\ Len(nodes) = 3 /\ Len(edges) > 0
       \/ variant = 1 /\ Passes > 104

RECURSIVE TemperatureSum(_, _, _)
\* the sum, in millionths, of the temperatures of n passes, the first at t
TemperatureSum(v, t, n) ==
    IF n = 0 THEN 0 ELSE t + TemperatureSum(v, Cool(v, t), n - 1)

\* the passes that the call has run so far
PassesRun ==
    IF pc = "loop" THEN k ELSE Passes

\* the temperatures of the passes that the call has run so far, summed
Travelled ==
    Temp(TemperatureSum(variant, InitialTemperature(variant), PassesRun))

\* T0 / (1 - coolingFactor)
TravelLimit(v) ==
    IF v = 1 THEN F(400) ELSE Div(F(1000), F(3))

\* what the rounding of the positions may add to a travel of d from the
\* point a in n passes: a hundredth of d, and in each pass the last bit of
\* the largest coordinate of a
TravelRounding(d, a, n) ==
    Add(Add(Dec(1, 100), Mul(d, Dec(1, 100))),
        Mul(F(n), Mul(MaxOf(<<Abs(a.x), Abs(a.y), Abs(a.z)>>), Dec(1, 2 ^ 14))))

\* C23 (bounded travel): in the loop and behind it, every node whose
\* position is a number stands no farther from where the call built it than
\* the sum of the temperatures of the passes run so far, up to the rounding
\* of the positions, and that sum is below T0 / (1 - coolingFactor), 400 or
\* about 333.
C23_BoundedTravel ==
    (pc \in {"loop", "final"}) =>
        /\ Lt(Travelled, TravelLimit(variant))
        /\ \A i \in 1..Len(nodes) :
              ~IsNaN(Distance(start[i], nodes[i])) =>
                  ~Gt(Distance(start[i], nodes[i]),
                      Add(Travelled, TravelRounding(Travelled, start[i], PassesRun)))

\* C23 happens: two atoms 100 apart, drawn together by their bond at the
\* speed of the temperature, have gone more than nine tenths of the sum
C23_Witness ==
    /\ pc = "loop"
    /\ k > 2
    /\ \E i \in 1..Len(nodes) :
          /\ IsFinite(Distance(start[i], nodes[i]))
          /\ Gt(Distance(start[i], nodes[i]), Mul(Travelled, Dec(9, 10)))

\* the molecule m with every atom moved to (0, 0, 0)
AtOriginAll(m) ==
    [m EXCEPT !.atoms = [i \in 1..Len(m.atoms) |->
                            [m.atoms[i] EXCEPT !.x = Zero, !.y = Zero, !.z = Zero]]]

\* one pass of the loop over the nodes st.ns at the temperature st.t with the
\* forces f; st.left tells whether the loop has been left
PassWith(v, st, f) ==
    [ns |-> SubSeq(Integrate(f, Temp(st.t)), 1, Len(st.ns)),
     t |-> Cool(v, st.t),
     j |-> st.j + 1,
     left |-> \/ Frozen(v, Cool(v, st.t), MaxVelFrom(f, 1, Zero))
              \/ st.j + 1 >= ITERATIONS(v)]

\* the same, unless the loop has been left
Pass(v, es, st) ==
    IF st.left THEN st ELSE PassWith(v, st, Forces(v, st.ns, es))

RECURSIVE PassesOf(_, _, _, _)
\* the n passes that follow the loop state half, unless it has left the loop
PassesAfter(v, es, half, n) ==
    IF half.left THEN half ELSE PassesOf(v, es, half, n)

\* n passes from st on, the first half of them before the second
PassesOf(v, es, st, n) ==
    IF n = 0 THEN st
    ELSE IF n = 1 THEN Pass(v, es, st)
    ELSE PassesAfter(v, es, PassesOf(v, es, st, n \div 2), n - n \div 2)

\* the nodes behind the loop that is entered with the nodes ns
Settled(v, ns, es) ==
    PassesOf(v, es, [ns |-> ns, t |-> InitialTemperature(v), j |-> 0, left |-> FALSE],
             ITERATIONS(v)).ns

\* what autoLayoutMolecule returns for the molecule m when Math.random()
\* yields the numbers of stream
LaidOut(v, m, stream) ==
    Output(v, m, Settled(v, InitNodes(v, m, stream),
                         MapEdges(v, InitNodes(v, m, stream), m.bonds)))

Coincide(a, b) ==
    /\ IsFinite(a.x) /\ IsFinite(a.y) /\ IsFinite(a.z)
    /\ a.x = b.x /\ a.y = b.y /\ a.z = b.z

\* all the nodes ns stand at one point
AllCoincide(ns) ==
    \A i, j \in 1..Len(ns) : Coincide(ns[i], ns[j])

\* C25 (coincident atoms feel no pairwise force): in every pass, two nodes
\* at the same point repel each other with the zero vector, and an edge
\* whose ends are at the same point, or are the same node, pulls with the
\* zero vector; so nodes that all coincide when the call has built them
\* coincide in every pass and behind the loop.
C25_CoincidentAtoms ==
    (pc \in {"loop", "final"} /\ ~BadEdge(nodes, edges)) =>
        /\ \A i, j \in 1..Len(nodes) :
              Coincide(nodes[i], nodes[j]) =>
                  RepulsionOf(variant, nodes[i], nodes[j]) = NoForce
        /\ \A e \in 1..Len(edges) :
              Coincide(nodes[edges[e].source + 1], nodes[edges[e].target + 1]) =>
                  SpringOf(variant, nodes[edges[e].source + 1],
                           nodes[edges[e].target + 1], edges[e].len) = NoForce
        /\ AllCoincide(start) => AllCoincide(nodes)

\* C25 happens: two bonded atoms that were at one point when built are at
\* one point after passes of the loop, elsewhere
C25_Witness ==
    /\ pc = "loop"
    /\ k > 2
    /\ Len(nodes) = 2
    /\ Len(edges) = 1
    /\ edges[1].source # edges[1].target
    /\ Coincide(nodes[1], nodes[2])
    /\ nodes[1].x # start[1].x

\* C26 (single atom): in a call on exactly one atom, no pass applies a
\* repulsion or a spring force other than the zero vector to its node, and
\* the tuning that recentres returns the atom at exactly (0, 0, 0), wherever
\* the finite input position was.
C26_SingleAtom ==
    (molecule.hasAtoms /\ Len(molecule.atoms) = 1) =>
        /\ (pc \in {"loop", "final"} /\ ~BadEdge(nodes, edges)) =>
              /\ BeforeGravity(variant, nodes, edges)[1].fx = Zero
              /\ BeforeGravity(variant, nodes, edges)[1].fy = Zero
              /\ BeforeGravity(variant, nodes, edges)[1].fz = Zero
        /\ (pc = "done" /\ variant = 2 /\ FiniteAtoms(molecule)) =>
              /\ Len(result.atoms) = 1
              /\ result.atoms[1].x = Zero
              /\ result.atoms[1].y = Zero
              /\ result.atoms[1].z = Zero

\* C26 happens: a single atom that was not at the origin has been returned
\* at the origin
C26_Witness ==
    /\ pc = "done"
    /\ variant = 2
    /\ Len(molecule.atoms) = 1
    /\ molecule.atoms[1].x # Zero
    /\ Len(result.atoms) = 1
    /\ result.atoms[1].x = Zero

\* the call of autoLayoutMolecule has built its nodes and edges
Simulated ==
    pc \in {"loop", "final", "done"} /\ molecule.hasAtoms /\ Len(molecule.atoms) > 0

\* C30 (rest length for other orders): an order that is neither 2 nor 3,
\* be it 0, 1, 4 or left out, selects the single-bond rest length; every
\* bond that simulateReaction hands over, whatever its order, is an edge of
\* the simulation between the nodes of its two atoms, those of an order
\* other than 2 and 3 with the single-bond rest length, and no call throws.
C30_OtherOrders ==
    /\ \A o \in ProductOrders \ {2, 3} : targetLen(variant, o) = LENGTH_SINGLE(variant)
    /\ pc # "threw"
    /\ Simulated =>
          /\ Len(edges) = Len(molecule.bonds)
          /\ \A e \in 1..Len(edges) :
                /\ nodes[edges[e].source + 1].id = molecule.bonds[e].sourceAtomId
                /\ nodes[edges[e].target + 1].id = molecule.bonds[e].targetAtomId
                /\ molecule.bonds[e].order \notin {2, 3} =>
                      edges[e].len = LENGTH_SINGLE(variant)

\* C30 happens: a bond that the response gave the order 4 is simulated
C30_Witness ==
    /\ pc = "loop"
    /\ k > 0
    /\ Len(edges) > 0
    /\ first.bonds[1].order = 4
    /\ molecule.bonds[1].order = 4
    /\ edges[1].len = LENGTH_SINGLE(variant)

-----------------------------------------------------------------------------
\* The Builder, the MoleculeRenderer it shows and the inventory of App.  The
\* renderer's internalMolecule is the Builder's currentMolecule (the effect
\* of lines 386-389 copies it after every render), an atom is its id, its
\* element and whether its coordinates come from a layout, and Date.now() is
\* a clock that every operation of the user advances.

\* the number of operations of the user
MaxClicks == 6

\* the elements the periodic table offers
Elements == {"C"}

\* the names typed into the save dialogue
SaveNames == {"Water", "Ice"}

\* the variables of the layout engine, which the Builder leaves alone
layout ==
    <<variant, molecule, pc, nodes, edges, temperature, k, maxVelSq, result, calls,
      first, service, outcome, start>>

\* the ids of the atoms of a molecule
AtomIdsOf(m) == {m.atoms[i].id : i \in 1..Len(m.atoms)}

\* the ids of the molecules of a list
MoleculeIds(list) == {list[i].id : i \in 1..Len(list)}

\* newAtom of addAtom: a fresh id and random coordinates
newAtom(element, t) == [id |-> <<"atom", t>>, element |-> element, laidOut |-> FALSE]

\* the updater of handleAtomDelete: the atom and the bonds that touch it go
AtomDeleted(prev, atomId) ==
    [prev EXCEPT
        !.atoms = SelectSeq(@, LAMBDA a : a.id # atomId),
        !.bonds = SelectSeq(@, LAMBDA b : b.sourceAtomId # atomId /\ b.targetAtomId # atomId)]

\* the updater of handleBondDelete
BondDeleted(prev, bondId) ==
    [prev EXCEPT !.bonds = SelectSeq(@, LAMBDA b : b.id # bondId)]

\* findIndex of handleAtomClick, counted from 1; 0 when no bond joins the two
existingBondIndex(m, selected, atomId) ==
    LET hits == {i \in 1..Len(m.bonds) :
                    \/ m.bonds[i].sourceAtomId = selected /\ m.bonds[i].targetAtomId = atomId
                    \/ m.bonds[i].targetAtomId = selected /\ m.bonds[i].sourceAtomId = atomId}
    IN  IF hits = {} THEN 0 ELSE CHOOSE i \in hits : \A j \in hits : i <= j

\* the cycle of the bond order
newOrder(order) == IF order = 1 THEN 2 ELSE IF order = 2 THEN 3 ELSE 1

\* newBond of handleAtomClick
newBond(selected, atomId, t) ==
    [id |-> <<"bond", t>>, sourceAtomId |-> selected, targetAtomId |-> atomId, order |-> 1]

\* updated of handleAtomClick: the bond between the two atoms is cycled, or a
\* new single bond from the selected atom is appended
updated(m, selected, atomId, t) ==
    LET index == existingBondIndex(m, selected, atomId)
    IN  IF index > 0
        THEN [m EXCEPT !.bonds[index].order = newOrder(@)]
        ELSE [m EXCEPT !.bonds = Append(@, newBond(selected, atomId, t))]

\* what getAccurate3DStructure resolves to: the molecule it was given, every
\* atom with new coordinates
formattedMolecule(m) ==
    [m EXCEPT !.atoms = [i \in 1..Len(m.atoms) |-> [m.atoms[i] EXCEPT !.laidOut = TRUE]]]

\* the molecule clearCanvas installs
Cleared(t) == [id |-> <<"temp", t>>, name |-> "New Molecule", atoms |-> <<>>, bonds |-> <<>>]

\* moleculeToSave of confirmSave: a saved molecule keeps its id under its own
\* name, any other gets a fresh one
moleculeToSave(m, saved, saveName, t) ==
    LET original == {i \in 1..Len(saved) : saved[i].id = m.id}
    IN  IF original = {} \/ \E i \in original : saved[i].name # saveName
        THEN [m EXCEPT !.name = saveName, !.id = <<"mol", t>>]
        ELSE [m EXCEPT !.name = saveName]

\* a faulty updater: the molecule is always added
handleSaveMoleculeAdded(prev, mol) == Append(prev, mol)

\* the updater of handleSaveMolecule
handleSaveMolecule(prev, mol) ==
    LET found == {i \in 1..Len(prev) : prev[i].id = mol.id}
    IN  IF found # {}
        THEN [prev EXCEPT ![CHOOSE i \in found : \A j \in found : i <= j] = mol]
        ELSE Append(prev, mol)

BuilderSpecInit ==
    /\ variant = 1
    /\ molecule = NoAtoms
    /\ pc = "idle"
    /\ nodes = <<>>
    /\ edges = <<>>
    /\ temperature = 0
    /\ k = 0
    /\ maxVelSq = Zero
    /\ result = NoAtoms
    /\ calls = 0
    /\ first = NoAtoms
    /\ service = "answers"
    /\ outcome = "none"
    /\ start = <<>>
    /\ BuilderInit

\* setHistory(prev => [...prev, currentMolecule])
saveHistory == history' = Append(history, currentMolecule)

\* a click on an element of the periodic table
addAtom ==
    /\ now < MaxClicks
    /\ saveHistory
    /\ \E element \in Elements :
          currentMolecule' = [currentMolecule EXCEPT !.atoms = Append(@, newAtom(element, now))]
    /\ mode' = "build"
    /\ now' = now + 1
    /\ UNCHANGED <<selectedAtomId, isLayoutLoading, requested, savedMolecules>>
    /\ UNCHANGED layout

\* the delete callbacks the renderer is given
handleAtomDelete(atomId) ==
    /\ saveHistory
    /\ currentMolecule' = AtomDeleted(currentMolecule, atomId)

handleBondDelete(bondId) ==
    /\ saveHistory
    /\ currentMolecule' = BondDeleted(currentMolecule, bondId)

\* onUpdate of the renderer: history is saved when a count changes
handleMoleculeUpdate(newMolecule) ==
    /\ history' = IF \/ Len(newMolecule.atoms) # Len(currentMolecule.atoms)
                     \/ Len(newMolecule.bonds) # Len(currentMolecule.bonds)
                  THEN Append(history, currentMolecule)
                  ELSE history
    /\ currentMolecule' = newMolecule

\* a click on an atom of the canvas
handleAtomClick ==
    /\ now < MaxClicks
    /\ \E atomId \in AtomIdsOf(currentMolecule) :
          IF mode = "erase"
          THEN /\ handleAtomDelete(atomId)
               /\ UNCHANGED selectedAtomId
          ELSE IF selectedAtomId # NoId /\ selectedAtomId # atomId
          THEN /\ handleMoleculeUpdate(updated(currentMolecule, selectedAtomId, atomId, now))
               /\ selectedAtomId' = NoId
          ELSE /\ selectedAtomId' = IF selectedAtomId = atomId THEN NoId ELSE atomId
               /\ UNCHANGED <<currentMolecule, history>>
    /\ now' = now + 1
    /\ UNCHANGED <<mode, isLayoutLoading, requested, savedMolecules>>
    /\ UNCHANGED layout

\* a click on a bond of the canvas; BondMesh draws a bond only when both its
\* atoms are found
handleBondClick ==
    /\ now < MaxClicks
    /\ \E i \in 1..Len(currentMolecule.bonds) :
          /\ currentMolecule.bonds[i].sourceAtomId \in AtomIdsOf(currentMolecule)
          /\ currentMolecule.bonds[i].targetAtomId \in AtomIdsOf(currentMolecule)
          /\ IF mode = "erase"
             THEN handleBondDelete(currentMolecule.bonds[i].id)
             ELSE UNCHANGED <<currentMolecule, history>>
    /\ now' = now + 1
    /\ UNCHANGED <<mode, selectedAtomId, isLayoutLoading, requested, savedMolecules>>
    /\ UNCHANGED layout

\* the Build and Erase buttons
setMode ==
    /\ now < MaxClicks
    /\ \E m \in {"build", "erase"} : m # mode /\ mode' = m
    /\ now' = now + 1
    /\ UNCHANGED <<currentMolecule, history, selectedAtomId, isLayoutLoading, requested,
                   savedMolecules>>
    /\ UNCHANGED layout

handleUndo ==
    /\ now < MaxClicks
    /\ Len(history) # 0
    /\ currentMolecule' = history[Len(history)]
    /\ history' = SubSeq(history, 1, Len(history) - 1)
    /\ now' = now + 1
    /\ UNCHANGED <<mode, selectedAtomId, isLayoutLoading, requested, savedMolecules>>
    /\ UNCHANGED layout

\* handleAutoLayout up to the await
handleAutoLayout ==
    /\ now < MaxClicks
    /\ ~(Len(currentMolecule.atoms) = 0 \/ isLayoutLoading)
    /\ saveHistory
    /\ isLayoutLoading' = TRUE
    /\ requested' = Append(requested, currentMolecule)
    /\ now' = now + 1
    /\ UNCHANGED <<currentMolecule, mode, selectedAtomId, savedMolecules>>
    /\ UNCHANGED layout

\* handleAutoLayout from the await on: the promise always resolves, since
\* getAccurate3DStructure catches its own errors
AutoLayoutResolved ==
    /\ requested # <<>>
    /\ currentMolecule' = formattedMolecule(Head(requested))
    /\ requested' = Tail(requested)
    /\ isLayoutLoading' = FALSE
    /\ UNCHANGED <<history, mode, selectedAtomId, savedMolecules, now>>
    /\ UNCHANGED layout

clearCanvas ==
    /\ now < MaxClicks
    /\ saveHistory
    /\ currentMolecule' = Cleared(now)
    /\ now' = now + 1
    /\ UNCHANGED <<mode, selectedAtomId, isLayoutLoading, requested, savedMolecules>>
    /\ UNCHANGED layout

\* a molecule of the inventory is picked in the load dialogue
handleLoad ==
    /\ now < MaxClicks
    /\ \E i \in 1..Len(savedMolecules) : currentMolecule' = savedMolecules[i]
    /\ history' = <<>>
    /\ now' = now + 1
    /\ UNCHANGED <<mode, selectedAtomId, isLayoutLoading, requested, savedMolecules>>
    /\ UNCHANGED layout

\* the save dialogue, which initiateSave opens for a molecule with atoms, is
\* confirmed: onSave is handleSaveMolecule, and clearCanvas follows
confirmSave ==
    /\ now < MaxClicks
    /\ Len(currentMolecule.atoms) # 0
    /\ \E saveName \in SaveNames :
          savedMolecules' =
              handleSaveMolecule(savedMolecules,
                                 moleculeToSave(currentMolecule, savedMolecules, saveName, now))
    /\ saveHistory
    /\ currentMolecule' = Cleared(now)
    /\ now' = now + 1
    /\ UNCHANGED <<mode, selectedAtomId, isLayoutLoading, requested>>
    /\ UNCHANGED layout

\* the delete button of an inventory entry, and the answer to window.confirm
handleDeleteMolecule ==
    /\ now < MaxClicks
    /\ \E i \in 1..Len(savedMolecules), confirmed \in BOOLEAN :
          savedMolecules' =
              IF confirmed
              THEN SelectSeq(savedMolecules, LAMBDA m : m.id # savedMolecules[i].id)
              ELSE savedMolecules
    /\ now' = now + 1
    /\ UNCHANGED <<currentMolecule, history, mode, selectedAtomId, isLayoutLoading, requested>>
    /\ UNCHANGED layout

\* a product of the Reaction Lab, as its save dialogue holds it
editingProduct ==
    [id |-> <<"product">>, name |-> "Product",
     atoms |-> <<[id |-> <<"p1">>, element |-> "C", laidOut |-> TRUE]>>, bonds |-> <<>>]

\* confirmSave of the Reaction Lab, whose tab is shown in place of the Builder
\* (which starts anew when its tab is shown again): a product is saved under
\* a name of the inventory, over the entry of that name if window.confirm is
\* answered with yes and not at all otherwise, or under a new name and id
onSaveProduct ==
    /\ now < MaxClicks
    /\ \E newName \in SaveNames, confirmed \in BOOLEAN :
          LET existing == {i \in 1..Len(savedMolecules) : savedMolecules[i].name = newName}
              existingMolecule == savedMolecules[CHOOSE i \in existing : \A j \in existing : i <= j]
              saveId == IF existing # {} THEN existingMolecule.id ELSE <<"saved-prod", now>>
          IN  savedMolecules' =
                  IF existing # {} /\ ~confirmed
                  THEN savedMolecules
                  ELSE handleSaveMolecule(savedMolecules,
                                          [editingProduct EXCEPT !.name = newName, !.id = saveId])
    /\ currentMolecule' = [id |-> <<"temp-builder">>, name |-> "New Molecule",
                           atoms |-> <<>>, bonds |-> <<>>]
    /\ history' = <<>>
    /\ mode' = "build"
    /\ selectedAtomId' = NoId
    /\ isLayoutLoading' = FALSE
    /\ requested' = <<>>
    /\ now' = now + 1
    /\ UNCHANGED layout

BuilderNext ==
    \/ addAtom
    \/ handleAtomClick
    \/ handleBondClick
    \/ setMode
    \/ handleUndo
    \/ handleAutoLayout
    \/ AutoLayoutResolved
    \/ clearCanvas
    \/ handleLoad
    \/ confirmSave
    \/ handleDeleteMolecule
    \/ onSaveProduct

BuilderSpec == BuilderSpecInit /\ [][BuilderNext]_vars

-----------------------------------------------------------------------------
\* a bond whose two ends are different atoms of the molecule
Attached(m, b) ==
    /\ b.sourceAtomId \in AtomIdsOf(m)
    /\ b.targetAtomId \in AtomIdsOf(m)
    /\ b.sourceAtomId # b.targetAtomId

\* C27 (Builder bonds stay attached): after any sequence of operations of the
\* Builder, every bond of the current molecule has its source and its target
\* among the atoms of the current molecule, and the two are different.
C27_BondsAttached ==
    \A i \in 1..Len(currentMolecule.bonds) : Attached(currentMolecule, currentMolecule.bonds[i])

-----------------------------------------------------------------------------
\* the step in which a pending getAccurate3DStructure call completes
Completes == requested # <<>> /\ requested' = Tail(requested) /\ now' = now

\* the step in which handleAutoLayout sends a request
Requests == Len(requested') > Len(requested)

\* C28 (auto-layout keeps concurrent edits): when the getAccurate3DStructure
\* call started by handleAutoLayout completes, the molecule installed as
\* current has the atom ids and the bonds that the current molecule had
\* immediately before, so that no edit made while the request was in flight
\* is lost; and no request starts while isLayoutLoading is true.
C28_LayoutKeepsEdits ==
    [][/\ Completes =>
            /\ AtomIdsOf(currentMolecule') = AtomIdsOf(currentMolecule)
            /\ currentMolecule'.bonds = currentMolecule.bonds
       /\ Requests => ~isLayoutLoading /\ requested = <<>>]_vars

-----------------------------------------------------------------------------
\* no two molecules of the list have the same id
UniqueIds(list) == \A i, j \in 1..Len(list) : list[i].id = list[j].id => i = j

\* one entry is replaced by a molecule of the same id, the others stay
ReplacedInPlace(prev, next) ==
    /\ Len(next) = Len(prev)
    /\ \E i \in 1..Len(prev) :
          /\ next[i].id = prev[i].id
          /\ \A j \in 1..Len(prev) : j # i => next[j] = prev[j]

\* exactly one entry is appended, and its id was not in the list
AppendedOne(prev, next) ==
    /\ Len(next) = Len(prev) + 1
    /\ SubSeq(next, 1, Len(prev)) = prev
    /\ next[Len(next)].id \notin MoleculeIds(prev)

\* the entries of one id are removed, the others stay in their order
DeletedById(prev, next) ==
    \E id \in MoleculeIds(prev) : next = SelectSeq(prev, LAMBDA m : m.id # id)

\* C29 (inventory ids are unique): from the empty inventory on, no two saved
\* molecules ever have the same id; a save of a molecule whose id is present
\* replaces that entry in place and leaves the length unchanged, any other
\* save appends exactly one entry, and a delete removes the entry of its id.
C29_InventoryIds ==
    /\ [](UniqueIds(savedMolecules))
    /\ [][savedMolecules' # savedMolecules =>
            \/ ReplacedInPlace(savedMolecules, savedMolecules')
            \/ AppendedOne(savedMolecules, savedMolecules')
            \/ DeletedById(savedMolecules, savedMolecules')]_vars

\* C29 happens: the first of two saved molecules of the Builder has been
\* overwritten in place by a product of the lab
C29_Witness ==
    /\ Len(savedMolecules) = 2
    /\ savedMolecules[1].id[1] = "mol"
    /\ savedMolecules[1].atoms[1].id = <<"p1">>
    /\ savedMolecules[2].atoms[1].id # <<"p1">>

=============================================================================
